---- MODULE Spec2Model ----
(***************************************************************************)
(* A model of the tamawiki collaborative-editing client: the operation     *)
(* algebra and its transform (protocol.ts), the document held by the       *)
(* content element (content.ts) and the client session (session.ts).       *)
(*                                                                         *)
(* Text is a sequence of one-character strings, so every position and      *)
(* length is a character count.  An operation, event or message is a       *)
(* record tagged by "type" after the class that implements it.             *)
(***************************************************************************)
EXTENDS Integers, Sequences, FiniteSets, TLC

VARIABLES
    otDoc,      \* the document both concurrent edits were made on
    otA,        \* a concurrent Edit
    otB,        \* the other concurrent Edit
    otLeft,     \* <<>> or <<r>>: r the result of A, then B.transform(A)
    otRight,    \* <<>> or <<r>>: r the result of B, then A.transform(B)
    doc,        \* ContentElement: text, participants' markers, local cursor
    docLog,     \* record of the last call on doc
    session,    \* Session: seq, clientSeq, participantId, sent, outbox, ...
    sessEnv,    \* around session: its connection, timers, subscribers, calls
    clients,    \* per participant: its Session and its ContentElement
    server,     \* the sequencing server
    toServer,   \* per participant: ClientEdits in flight to the server
    toClient,   \* per participant: ServerMessages in flight to the client
    json,       \* a protocol object, its toJSON data and the object read back
    editor      \* a ContentElement in use: its change listener and the Session

vars == <<otDoc, otA, otB, otLeft, otRight, doc, docLog, session, sessEnv,
          clients, server, toServer, toClient, json, editor>>

otVars == <<otDoc, otA, otB, otLeft, otRight>>
docVars == <<doc, docLog>>
sessVars == <<session, sessEnv>>
sysVars == <<clients, server, toServer, toClient>>
jsonVars == <<json>>
editorVars == <<editor>>

-----------------------------------------------------------------------------
(* The variables a specification does not use stay at these values.        *)

OTIdle ==
    otDoc = <<>> /\ otA = <<>> /\ otB = <<>> /\ otLeft = <<>> /\ otRight = <<>>

DocIdle == doc = <<>> /\ docLog = <<>>

SessionIdle == session = <<>> /\ sessEnv = <<>>

SysIdle ==
    clients = <<>> /\ server = <<>> /\ toServer = <<>> /\ toClient = <<>>

JSONIdle == json = <<>>

EditorIdle == editor = <<>>

-----------------------------------------------------------------------------
(* Bounds of the model.                                                    *)

\* Longest base document and longest inserted text of the single-operation
\* transforms.
MaxDocLen == 3
MaxContentLen == 2
\* Longest base document and most operations per Edit of the Edit transforms.
MaxEditDocLen == 2
MaxOps == 2

-----------------------------------------------------------------------------
(* Texts of the model.                                                     *)

Alphabet == <<"a", "b", "c", "d", "e", "f">>

\* The text of a base document of n distinct characters.
BaseText(n) == [i \in 1..n |-> Alphabet[i]]

\* A text of n copies of one character.
Repeat(ch, n) == [i \in 1..n |-> ch]

AuthorA == 1
AuthorB == 2

AuthorChar(author) == IF author = AuthorA THEN "x" ELSE "y"

-----------------------------------------------------------------------------
(* protocol.ts: operations and events.                                     *)

Insert(pos, content) == [type |-> "Insert", pos |-> pos, content |-> content]

Delete(start, end) == [type |-> "Delete", start |-> start, end |-> end]

MoveCursor(pos) == [type |-> "MoveCursor", pos |-> pos]

Edit(author, operations) ==
    [type |-> "Edit", author |-> author, operations |-> operations]

Join(id) == [type |-> "Join", id |-> id]

Leave(id) == [type |-> "Leave", id |-> id]

ClientEdit(parentSeq, clientSeq, operations) ==
    [type |-> "ClientEdit", parentSeq |-> parentSeq, clientSeq |-> clientSeq,
     operations |-> operations]

Connected(id) == [type |-> "Connected", id |-> id]

ServerEvent(seq, clientSeq, event) ==
    [type |-> "ServerEvent", seq |-> seq, clientSeq |-> clientSeq,
     event |-> event]

Min(a, b) == IF a < b THEN a ELSE b

\* Operation.cursorPositionAfter
cursorPositionAfter(op) ==
    CASE op.type = "Insert" -> op.pos + Len(op.content)
      [] op.type = "Delete" -> op.start
      [] op.type = "MoveCursor" -> op.pos

\* A variant of Insert.transform that shifts on equal positions whatever
\* the priority.
InsertTransformNoPriority(this, other, hasPriority) ==
    CASE other.type = "Insert" ->
            IF other.pos <= this.pos
            THEN <<Insert(this.pos + Len(other.content), this.content)>>
            ELSE <<this>>
      [] other.type = "Delete" ->
            IF other.start < this.pos
            THEN <<Insert(this.pos - (Min(this.pos, other.end) - other.start),
                          this.content)>>
            ELSE <<this>>
      [] other.type = "MoveCursor" -> <<this>>

\* A variant of Insert.transform that shifts on equal positions when it
\* has no priority.
InsertTransformHigherShifts(this, other, hasPriority) ==
    CASE other.type = "Insert" ->
            IF other.pos < this.pos \/ (other.pos = this.pos /\ ~hasPriority)
            THEN <<Insert(this.pos + Len(other.content), this.content)>>
            ELSE <<this>>
      [] other.type = "Delete" ->
            IF other.start < this.pos
            THEN <<Insert(this.pos - (Min(this.pos, other.end) - other.start),
                          this.content)>>
            ELSE <<this>>
      [] other.type = "MoveCursor" -> <<this>>

\* Insert.transform
InsertTransform(this, other, hasPriority) ==
    CASE other.type = "Insert" ->
            IF other.pos < this.pos \/ (other.pos = this.pos /\ hasPriority)
            THEN <<Insert(this.pos + Len(other.content), this.content)>>
            ELSE <<this>>
      [] other.type = "Delete" ->
            IF other.start < this.pos
            THEN <<Insert(this.pos - (Min(this.pos, other.end) - other.start),
                          this.content)>>
            ELSE <<this>>
      [] other.type = "MoveCursor" -> <<this>>

\* A variant of Delete.transform that returns the range before the Insert
\* first.
DeleteTransformBeforeFirst(this, other, hasPriority) ==
    CASE other.type = "Insert" ->
            IF other.pos < this.start
            THEN <<Delete(this.start + Len(other.content),
                          this.end + Len(other.content))>>
            ELSE IF other.pos < this.end /\ this.end - this.start > 0
            THEN <<Delete(this.start, other.pos),
                   Delete(other.pos + Len(other.content),
                          this.end + Len(other.content))>>
            ELSE <<this>>
      [] other.type = "Delete" ->
            LET charsDeletedBefore ==
                    IF other.start < this.start
                    THEN Min(this.start, other.end) - other.start
                    ELSE 0
                charsDeletedInside ==
                    IF other.start < this.start
                    THEN IF other.end > this.start
                         THEN Min(this.end, other.end) - this.start
                         ELSE 0
                    ELSE IF other.start < this.end
                         THEN Min(this.end, other.end) - other.start
                         ELSE 0
            IN  <<Delete(this.start - charsDeletedBefore,
                         this.end - (charsDeletedBefore + charsDeletedInside))>>
      [] other.type = "MoveCursor" -> <<this>>

\* A variant of Delete.transform that measures the overlap from the start of
\* the other range whichever range starts first.
DeleteTransformOverlapFromOther(this, other, hasPriority) ==
    CASE other.type = "Insert" ->
            IF other.pos < this.start
            THEN <<Delete(this.start + Len(other.content),
                          this.end + Len(other.content))>>
            ELSE IF other.pos < this.end /\ this.end - this.start > 0
            THEN <<Delete(other.pos + Len(other.content),
                          this.end + Len(other.content)),
                   Delete(this.start, other.pos)>>
            ELSE <<this>>
      [] other.type = "Delete" ->
            LET charsDeletedBefore ==
                    IF other.start < this.start
                    THEN Min(this.start, other.end) - other.start
                    ELSE 0
                charsDeletedInside ==
                    IF other.start < this.end /\ other.end > this.start
                    THEN Min(this.end, other.end) - other.start
                    ELSE 0
            IN  <<Delete(this.start - charsDeletedBefore,
                         this.end - (charsDeletedBefore + charsDeletedInside))>>
      [] other.type = "MoveCursor" -> <<this>>

\* A variant of Delete.transform that returns the two Deletes of a split
\* with the one before the Insert first.
DeleteTransformSplitInTextOrder(this, other, hasPriority) ==
    CASE other.type = "Insert" ->
            IF other.pos < this.start
            THEN <<Delete(this.start + Len(other.content),
                          this.end + Len(other.content))>>
            ELSE IF other.pos < this.end /\ this.end - this.start > 0
            THEN <<Delete(this.start, other.pos),
                   Delete(other.pos + Len(other.content),
                          this.end + Len(other.content))>>
            ELSE <<this>>
      [] other.type = "Delete" ->
            LET charsDeletedBefore ==
                    IF other.start < this.start
                    THEN Min(this.start, other.end) - other.start
                    ELSE 0
                charsDeletedInside ==
                    IF other.start < this.start
                    THEN IF other.end > this.start
                         THEN Min(this.end, other.end) - this.start
                         ELSE 0
                    ELSE IF other.start < this.end
                         THEN Min(this.end, other.end) - other.start
                         ELSE 0
            IN  <<Delete(this.start - charsDeletedBefore,
                         this.end - (charsDeletedBefore + charsDeletedInside))>>
      [] other.type = "MoveCursor" -> <<this>>

\* Delete.transform
DeleteTransform(this, other, hasPriority) ==
    CASE other.type = "Insert" ->
            IF other.pos < this.start
            THEN <<Delete(this.start + Len(other.content),
                          this.end + Len(other.content))>>
            ELSE IF other.pos < this.end /\ this.end - this.start > 0
            THEN <<Delete(other.pos + Len(other.content),
                          this.end + Len(other.content)),
                   Delete(this.start, other.pos)>>
            ELSE <<this>>
      [] other.type = "Delete" ->
            LET charsDeletedBefore ==
                    IF other.start < this.start
                    THEN Min(this.start, other.end) - other.start
                    ELSE 0
                charsDeletedInside ==
                    IF other.start < this.start
                    THEN IF other.end > this.start
                         THEN Min(this.end, other.end) - this.start
                         ELSE 0
                    ELSE IF other.start < this.end
                         THEN Min(this.end, other.end) - other.start
                         ELSE 0
            IN  <<Delete(this.start - charsDeletedBefore,
                         this.end - (charsDeletedBefore + charsDeletedInside))>>
      [] other.type = "MoveCursor" -> <<this>>

\* A variant of MoveCursor.transform that lowers the position by the whole
\* length of a Delete that starts before it.
MoveCursorTransformWholeRange(this, other, hasPriority) ==
    CASE other.type = "Insert" ->
            IF other.pos < this.pos
            THEN <<MoveCursor(this.pos + Len(other.content))>>
            ELSE <<this>>
      [] other.type = "Delete" ->
            IF other.start < this.pos
            THEN <<MoveCursor(this.pos - (other.end - other.start))>>
            ELSE <<this>>
      [] other.type = "MoveCursor" -> <<this>>

\* A variant of MoveCursor.transform that breaks the tie with an Insert at
\* the same pos by priority, as Insert.transform does.
MoveCursorTransformByPriority(this, other, hasPriority) ==
    CASE other.type = "Insert" ->
            IF other.pos < this.pos \/ (other.pos = this.pos /\ hasPriority)
            THEN <<MoveCursor(this.pos + Len(other.content))>>
            ELSE <<this>>
      [] other.type = "Delete" ->
            IF other.start < this.pos
            THEN <<MoveCursor(this.pos - (Min(this.pos, other.end) - other.start))>>
            ELSE <<this>>
      [] other.type = "MoveCursor" -> <<this>>

\* MoveCursor.transform
MoveCursorTransform(this, other, hasPriority) ==
    CASE other.type = "Insert" ->
            IF other.pos < this.pos
            THEN <<MoveCursor(this.pos + Len(other.content))>>
            ELSE <<this>>
      [] other.type = "Delete" ->
            IF other.start < this.pos
            THEN <<MoveCursor(this.pos - (Min(this.pos, other.end) - other.start))>>
            ELSE <<this>>
      [] other.type = "MoveCursor" -> <<this>>

\* Operation.transform: the rewrite of op, as a list, to apply after other.
OperationTransform(op, other, hasPriority) ==
    CASE op.type = "Insert" -> InsertTransform(op, other, hasPriority)
      [] op.type = "Delete" -> DeleteTransform(op, other, hasPriority)
      [] op.type = "MoveCursor" -> MoveCursorTransform(op, other, hasPriority)

\* The inner loop of Edit.transform: every operation of the list rewritten
\* against one operation of the other Edit, the results concatenated.
RECURSIVE TransformOperations(_, _, _)
TransformOperations(operations, otherOperation, hasPriority) ==
    IF operations = <<>>
    THEN <<>>
    ELSE OperationTransform(Head(operations), otherOperation, hasPriority)
         \o TransformOperations(Tail(operations), otherOperation, hasPriority)

\* The outer loop of Edit.transform, over the other Edit's operations.
RECURSIVE TransformAgainst(_, _, _)
TransformAgainst(operations, otherOperations, hasPriority) ==
    IF otherOperations = <<>>
    THEN operations
    ELSE TransformAgainst(
            TransformOperations(operations, Head(otherOperations), hasPriority),
            Tail(otherOperations), hasPriority)

\* Event.transform (Edit.transform, Join.transform, Leave.transform)
EventTransform(this, other) ==
    IF this.type = "Edit" /\ other.type = "Edit"
    THEN Edit(this.author,
              TransformAgainst(this.operations, other.operations,
                               this.author < other.author))
    ELSE this

-----------------------------------------------------------------------------
(* protocol.ts: toJSON and fromJSON.  The data toJSON returns is a record  *)
(* keyed as the object literal is: a variant is one key, the name of the   *)
(* variant, over the record of its fields.  fromJSON reads the keys it     *)
(* names and picks the variant by the key that is present.                 *)

\* new Participant(id, cursorPos)
Participant(id, cursorPos) ==
    [type |-> "Participant", id |-> id, cursorPos |-> cursorPos]

\* new Document(content, participants), the Document of protocol.ts
ProtocolDocument(content, participants) ==
    [type |-> "Document", content |-> content, participants |-> participants]

\* What a fromJSON that throws stands for.
UnknownType == [type |-> "Error"]

\* Insert.toJSON, Delete.toJSON, MoveCursor.toJSON
InsertToJSON(op) == [Insert |-> [pos |-> op.pos, content |-> op.content]]
DeleteToJSON(op) == [Delete |-> [start |-> op.start, end |-> op.end]]
MoveCursorToJSON(op) == [MoveCursor |-> [pos |-> op.pos]]

\* op.toJSON() of an Operation
OperationToJSON(op) ==
    CASE op.type = "Insert" -> InsertToJSON(op)
      [] op.type = "Delete" -> DeleteToJSON(op)
      [] op.type = "MoveCursor" -> MoveCursorToJSON(op)

\* Insert.fromJSON, Delete.fromJSON, MoveCursor.fromJSON
InsertFromJSON(data) == Insert(data.Insert.pos, data.Insert.content)
DeleteFromJSON(data) == Delete(data.Delete.start, data.Delete.end)
MoveCursorFromJSON(data) == MoveCursor(data.MoveCursor.pos)

\* Operation.fromJSON
OperationFromJSON(data) ==
    IF "Insert" \in DOMAIN data THEN InsertFromJSON(data)
    ELSE IF "Delete" \in DOMAIN data THEN DeleteFromJSON(data)
    ELSE IF "MoveCursor" \in DOMAIN data THEN MoveCursorFromJSON(data)
    ELSE UnknownType

\* Edit.toJSON, Join.toJSON, Leave.toJSON
EditToJSON(event) ==
    [Edit |-> [author |-> event.author,
               operations |-> [i \in 1..Len(event.operations) |->
                                  OperationToJSON(event.operations[i])]]]
JoinToJSON(event) == [Join |-> [id |-> event.id]]
LeaveToJSON(event) == [Leave |-> [id |-> event.id]]

\* event.toJSON() of an Event
EventToJSON(event) ==
    CASE event.type = "Edit" -> EditToJSON(event)
      [] event.type = "Join" -> JoinToJSON(event)
      [] event.type = "Leave" -> LeaveToJSON(event)

\* data.map(Operation.fromJSON): the operations read, and whether
\* Operation.fromJSON throws on one of them.
OperationsFromJSON(data) ==
    LET operations == [i \in 1..Len(data) |-> OperationFromJSON(data[i])]
    IN  [operations |-> operations,
         throws |-> \E i \in 1..Len(data) : operations[i].type = "Error"]

\* Edit.fromJSON, Join.fromJSON, Leave.fromJSON
EditFromJSON(data) ==
    LET read == OperationsFromJSON(data.Edit.operations)
    IN  IF read.throws
        THEN UnknownType
        ELSE Edit(data.Edit.author, read.operations)
JoinFromJSON(data) == Join(data.Join.id)
LeaveFromJSON(data) == Leave(data.Leave.id)

\* Event.fromJSON
EventFromJSON(data) ==
    IF "Edit" \in DOMAIN data THEN EditFromJSON(data)
    ELSE IF "Join" \in DOMAIN data THEN JoinFromJSON(data)
    ELSE IF "Leave" \in DOMAIN data THEN LeaveFromJSON(data)
    ELSE UnknownType

\* ClientEdit.toJSON
ClientEditToJSON(msg) ==
    [ClientEdit |->
        [client_seq |-> msg.clientSeq,
         operations |-> [i \in 1..Len(msg.operations) |->
                            OperationToJSON(msg.operations[i])],
         parent_seq |-> msg.parentSeq]]

\* ClientEdit.fromJSON
ClientEditFromJSON(data) ==
    LET read == OperationsFromJSON(data.ClientEdit.operations)
    IN  IF read.throws
        THEN UnknownType
        ELSE ClientEdit(data.ClientEdit.parent_seq,
                        data.ClientEdit.client_seq,
                        read.operations)

\* ClientMessage.fromJSON
ClientMessageFromJSON(data) == ClientEditFromJSON(data)

\* Connected.toJSON and Connected.fromJSON
ConnectedToJSON(msg) == [Connected |-> [id |-> msg.id]]
ConnectedFromJSON(data) == Connected(data.Connected.id)

\* ServerEvent.toJSON
ServerEventToJSON(msg) ==
    [Event |-> [client_seq |-> msg.clientSeq,
                event |-> EventToJSON(msg.event),
                seq |-> msg.seq]]

\* A variant of ServerEvent.fromJSON that takes client_seq for the seq and
\* seq for the clientSeq.
ServerEventFromJSONSwapsSeq(data) ==
    LET event == EventFromJSON(data.Event.event)
    IN  IF event.type = "Error"
        THEN UnknownType
        ELSE ServerEvent(data.Event.client_seq, data.Event.seq, event)

\* ServerEvent.fromJSON
ServerEventFromJSON(data) ==
    LET event == EventFromJSON(data.Event.event)
    IN  IF event.type = "Error"
        THEN UnknownType
        ELSE ServerEvent(data.Event.seq, data.Event.client_seq, event)

\* msg.toJSON() of a ServerMessage
ServerMessageToJSON(msg) ==
    CASE msg.type = "Connected" -> ConnectedToJSON(msg)
      [] msg.type = "ServerEvent" -> ServerEventToJSON(msg)

\* ServerMessage.fromJSON
ServerMessageFromJSON(data) ==
    IF "Connected" \in DOMAIN data THEN ConnectedFromJSON(data)
    ELSE IF "Event" \in DOMAIN data THEN ServerEventFromJSON(data)
    ELSE UnknownType

\* Participant.toJSON and Participant.fromJSON
ParticipantToJSON(participant) ==
    [id |-> participant.id, cursor_pos |-> participant.cursorPos]
ParticipantFromJSON(data) == Participant(data.id, data.cursor_pos)

\* Document.toJSON
DocumentToJSON(d) ==
    [content |-> d.content,
     participants |-> [i \in 1..Len(d.participants) |->
                          ParticipantToJSON(d.participants[i])]]

\* Document.fromJSON
DocumentFromJSON(data) ==
    ProtocolDocument(data.content,
                     [i \in 1..Len(data.participants) |->
                        ParticipantFromJSON(data.participants[i])])

-----------------------------------------------------------------------------
(* content.ts: the document of a ContentElement.  participants maps the    *)
(* id of each entry of otherParticipants to the index of its marker, and   *)
(* cursor is the index of the local editing cursor.                        *)

Document(content, participants, cursor) ==
    [content |-> content, participants |-> participants, cursor |-> cursor]

\* doc.replaceRange(content, pos): the text with content spliced in at pos
SpliceIn(text, pos, content) ==
    SubSeq(text, 1, pos) \o content \o SubSeq(text, pos + 1, Len(text))

\* A variant of the removal that takes the character at end as well.
SpliceOutThroughEnd(text, start, end) ==
    SubSeq(text, 1, start) \o SubSeq(text, end + 2, Len(text))

\* doc.replaceRange("", start, end): the text without [start, end)
SpliceOut(text, start, end) ==
    SubSeq(text, 1, start) \o SubSeq(text, end + 1, Len(text))

\* ContentElement.canApplyOperation: the length after op, or the error.
canApplyOperation(op, length) ==
    CASE op.type = "Insert" ->
            IF op.pos > length
            THEN [error |-> "OutsideDocument", length |-> length]
            ELSE [error |-> "", length |-> length + Len(op.content)]
      [] op.type = "Delete" ->
            IF op.start > op.end
            THEN [error |-> "InvalidOperation", length |-> length]
            ELSE IF op.end > length
            THEN [error |-> "OutsideDocument", length |-> length]
            ELSE [error |-> "", length |-> length - (op.end - op.start)]
      [] op.type = "MoveCursor" ->
            IF op.pos > length
            THEN [error |-> "OutsideDocument", length |-> length]
            ELSE [error |-> "", length |-> length]

\* A variant of the loop of canApplyEvent that checks every operation
\* against the length the content has before the Edit.
RECURSIVE canApplyOperationsFixedLength(_, _)
canApplyOperationsFixedLength(operations, length) ==
    IF operations = <<>>
    THEN ""
    ELSE LET r == canApplyOperation(Head(operations), length)
         IN  IF r.error # ""
             THEN r.error
             ELSE canApplyOperationsFixedLength(Tail(operations), length)

\* The loop of canApplyEvent over the operations of an Edit.
RECURSIVE canApplyOperations(_, _)
canApplyOperations(operations, length) ==
    IF operations = <<>>
    THEN ""
    ELSE LET r == canApplyOperation(Head(operations), length)
         IN  IF r.error # ""
             THEN r.error
             ELSE canApplyOperations(Tail(operations), r.length)

\* A variant of canApplyEvent that accepts a Join whatever the roster.
canApplyEventJoinUnchecked(d, event) ==
    CASE event.type = "Join" -> ""
      [] event.type = "Leave" ->
            IF event.id \notin DOMAIN d.participants THEN "InvalidOperation" ELSE ""
      [] event.type = "Edit" ->
            IF event.author \notin DOMAIN d.participants
            THEN "InvalidOperation"
            ELSE canApplyOperations(event.operations, Len(d.content))

\* ContentElement.canApplyEvent: "" or the error it throws.
canApplyEvent(d, event) ==
    CASE event.type = "Join" ->
            IF event.id \in DOMAIN d.participants THEN "InvalidOperation" ELSE ""
      [] event.type = "Leave" ->
            IF event.id \notin DOMAIN d.participants THEN "InvalidOperation" ELSE ""
      [] event.type = "Edit" ->
            IF event.author \notin DOMAIN d.participants
            THEN "InvalidOperation"
            ELSE canApplyOperations(event.operations, Len(d.content))

\* A variant of applyOperation whose Delete moves no marker but the
\* author's.
applyOperationLeavesMarkers(d, author, op) ==
    CASE op.type = "Insert" ->
            LET n == Len(op.content)
            IN  [content |-> SpliceIn(d.content, op.pos, op.content),
                 participants |->
                    [id \in DOMAIN d.participants |->
                        IF id = author THEN cursorPositionAfter(op)
                        ELSE IF d.participants[id] > op.pos
                        THEN d.participants[id] + n
                        ELSE d.participants[id]],
                 cursor |-> IF d.cursor > op.pos THEN d.cursor + n ELSE d.cursor]
      [] op.type = "Delete" ->
            [content |-> SpliceOut(d.content, op.start, op.end),
             participants |->
                [id \in DOMAIN d.participants |->
                    IF id = author THEN cursorPositionAfter(op)
                    ELSE d.participants[id]],
             cursor |-> d.cursor]
      [] op.type = "MoveCursor" ->
            [d EXCEPT !.participants[author] = cursorPositionAfter(op)]

\* A variant of applyOperation whose Insert also pushes the markers that sit
\* exactly at the insertion point.
applyOperationPushesMarkersAtPos(d, author, op) ==
    CASE op.type = "Insert" ->
            LET n == Len(op.content)
            IN  [content |-> SpliceIn(d.content, op.pos, op.content),
                 participants |->
                    [id \in DOMAIN d.participants |->
                        IF id = author THEN cursorPositionAfter(op)
                        ELSE IF d.participants[id] >= op.pos
                        THEN d.participants[id] + n
                        ELSE d.participants[id]],
                 cursor |-> IF d.cursor > op.pos THEN d.cursor + n ELSE d.cursor]
      [] op.type = "Delete" ->
            LET n == op.end - op.start
                moved(q) == IF q <= op.start THEN q
                            ELSE IF q < op.end THEN op.start
                            ELSE q - n
            IN  [content |-> SpliceOut(d.content, op.start, op.end),
                 participants |->
                    [id \in DOMAIN d.participants |->
                        IF id = author THEN cursorPositionAfter(op)
                        ELSE moved(d.participants[id])],
                 cursor |-> moved(d.cursor)]
      [] op.type = "MoveCursor" ->
            [d EXCEPT !.participants[author] = cursorPositionAfter(op)]

\* A variant of applyOperation without the atLocalCursor test: an Insert at
\* the index of the local cursor pushes the local cursor right.
applyOperationPushesLocalCursor(d, author, op) ==
    CASE op.type = "Insert" ->
            LET n == Len(op.content)
            IN  [content |-> SpliceIn(d.content, op.pos, op.content),
                 participants |->
                    [id \in DOMAIN d.participants |->
                        IF id = author THEN cursorPositionAfter(op)
                        ELSE IF d.participants[id] > op.pos
                        THEN d.participants[id] + n
                        ELSE d.participants[id]],
                 cursor |-> IF d.cursor >= op.pos THEN d.cursor + n ELSE d.cursor]
      [] op.type = "Delete" ->
            LET n == op.end - op.start
                moved(q) == IF q <= op.start THEN q
                            ELSE IF q < op.end THEN op.start
                            ELSE q - n
            IN  [content |-> SpliceOut(d.content, op.start, op.end),
                 participants |->
                    [id \in DOMAIN d.participants |->
                        IF id = author THEN cursorPositionAfter(op)
                        ELSE moved(d.participants[id])],
                 cursor |-> moved(d.cursor)]
      [] op.type = "MoveCursor" ->
            [d EXCEPT !.participants[author] = cursorPositionAfter(op)]

\* ContentElement.applyOperation
applyOperation(d, author, op) ==
    CASE op.type = "Insert" ->
            LET n == Len(op.content)
            IN  [content |-> SpliceIn(d.content, op.pos, op.content),
                 participants |->
                    [id \in DOMAIN d.participants |->
                        IF id = author THEN cursorPositionAfter(op)
                        ELSE IF d.participants[id] > op.pos
                        THEN d.participants[id] + n
                        ELSE d.participants[id]],
                 cursor |-> IF d.cursor > op.pos THEN d.cursor + n ELSE d.cursor]
      [] op.type = "Delete" ->
            LET n == op.end - op.start
                moved(q) == IF q <= op.start THEN q
                            ELSE IF q < op.end THEN op.start
                            ELSE q - n
            IN  [content |-> SpliceOut(d.content, op.start, op.end),
                 participants |->
                    [id \in DOMAIN d.participants |->
                        IF id = author THEN cursorPositionAfter(op)
                        ELSE moved(d.participants[id])],
                 cursor |-> moved(d.cursor)]
      [] op.type = "MoveCursor" ->
            [d EXCEPT !.participants[author] = cursorPositionAfter(op)]

\* The loop of applyEvent over the operations of an Edit.
RECURSIVE applyOperations(_, _, _)
applyOperations(d, author, operations) ==
    IF operations = <<>>
    THEN d
    ELSE applyOperations(applyOperation(d, author, Head(operations)),
                         author, Tail(operations))

\* doc.posFromIndex(index): an index past the end is the end of the text.
posFromIndex(index, length) == IF index > length THEN length ELSE index

\* ContentElement.setParticipantPosition: the document after the call and
\* the error it throws; reading the marker of an id that has no entry in
\* otherParticipants throws.
setParticipantPosition(d, id, index) ==
    IF id \notin DOMAIN d.participants
    THEN [doc |-> d, error |-> "TypeError"]
    ELSE [doc |-> [d EXCEPT !.participants[id] =
                        posFromIndex(index, Len(d.content))],
          error |-> ""]

\* ContentElement.addParticipant: a new entry for the id, also when it has
\* one, and its marker at cursorPos.
addParticipant(d, id, cursorPos) ==
    [d EXCEPT !.participants =
        [i \in DOMAIN d.participants \cup {id} |->
            IF i = id THEN posFromIndex(cursorPos, Len(d.content))
            ELSE d.participants[i]]]

\* ContentElement.removeParticipant
removeParticipant(d, id) ==
    [d EXCEPT !.participants =
        [i \in DOMAIN d.participants \ {id} |-> d.participants[i]]]

\* The loop of loadDocument over the participants of the document.
RECURSIVE addParticipants(_, _)
addParticipants(d, participants) ==
    IF participants = <<>>
    THEN d
    ELSE addParticipants(addParticipant(d, Head(participants).id,
                                        Head(participants).cursorPos),
                         Tail(participants))

\* The index of a marker that is no longer in the text.
NoPosition == -1

\* ContentElement.loadDocument: setValue replaces the whole text, which
\* takes every marker out of it and puts the local cursor at the start;
\* the entries of otherParticipants stay, and the participants of the
\* document get new markers.
loadDocument(d, document) ==
    addParticipants(
        [content |-> document.content,
         participants |-> [id \in DOMAIN d.participants |-> NoPosition],
         cursor |-> 0],
        document.participants)

\* A variant of applyEvent that validates each operation of an Edit only
\* when it gets to it, keeping the operations applied before the failure.
RECURSIVE applyOperationsStepwise(_, _, _)
applyOperationsStepwise(d, author, operations) ==
    IF operations = <<>>
    THEN [doc |-> d, error |-> ""]
    ELSE LET r == canApplyOperation(Head(operations), Len(d.content))
         IN  IF r.error # ""
             THEN [doc |-> d, error |-> r.error]
             ELSE applyOperationsStepwise(
                    applyOperation(d, author, Head(operations)),
                    author, Tail(operations))

applyEventStepwise(d, event) ==
    IF event.type = "Edit" /\ event.author \in DOMAIN d.participants
    THEN applyOperationsStepwise(d, event.author, event.operations)
    ELSE [doc |-> d, error |-> canApplyEvent(d, event)]

\* ContentElement.applyEvent: the document after the call and the error it
\* throws ("" when it returns).
applyEvent(d, event) ==
    LET error == canApplyEvent(d, event)
    IN  IF error # ""
        THEN [doc |-> d, error |-> error]
        ELSE [doc |->
                CASE event.type = "Join" -> addParticipant(d, event.id, 0)
                  [] event.type = "Leave" -> removeParticipant(d, event.id)
                  [] event.type = "Edit" ->
                        applyOperations(d, event.author, event.operations),
              error |-> ""]

-----------------------------------------------------------------------------
(* Events applied to a ContentElement.  The events offered include ones    *)
(* that validation rejects: an unknown author, a position or range one     *)
(* past the end of the text, a Delete with start > end.                    *)

Ids == {1, 2, 3}

\* Most events applied in one run and the longest text.
MaxEvents == 2
MaxTextLen == 3

\* The operations offered to a document of the given length: positions and
\* ranges up to one past the end, and Deletes with start > end.
OfferedOperations(length) ==
    {Insert(p, Repeat("x", n)) : p \in 0..(length + 1), n \in 0..1}
    \cup {Delete(s, e) : s \in 0..(length + 1), e \in 0..(length + 1)}
    \cup {MoveCursor(p) : p \in 0..(length + 1)}

\* The valid operations that change the length by one character.
OneCharacterChanges(length) ==
    {Insert(p, <<"x">>) : p \in 0..length}
    \cup {Delete(s, s + 1) : s \in 0..(length - 1)}

\* The operation lists offered: one operation, or a one-character change
\* followed by any operation offered.
OfferedOperationLists(length) ==
    {<<op>> : op \in OfferedOperations(length)}
    \cup {<<op1, op2>> : op1 \in OneCharacterChanges(length),
                         op2 \in OfferedOperations(length)}

OfferedEvents(length) ==
    {Edit(author, ops) : author \in Ids, ops \in OfferedOperationLists(length)}
    \cup {Join(id) : id \in Ids}
    \cup {Leave(id) : id \in Ids}

\* loadDocument: a text, the markers of participants 1 and 2 and the local
\* cursor, each at the start or at the end of the text.
ContentInit ==
    /\ \E n \in 0..MaxEditDocLen :
        \E p2 \in {0, n}, c \in {0, n} :
            doc = Document(BaseText(n), (1 :> 0) @@ (2 :> p2), c)
    /\ docLog = [call |-> "", event |-> <<>>, error |-> "", before |-> <<>>,
                 count |-> 0]
    /\ OTIdle /\ SessionIdle /\ SysIdle /\ JSONIdle /\ EditorIdle

\* content.applyEvent(event); docLog records the call and what it threw.
ApplyEvent ==
    /\ docLog.count < MaxEvents
    /\ \E event \in OfferedEvents(Len(doc.content)) :
        LET r == applyEvent(doc, event)
        IN  /\ Len(r.doc.content) <= MaxTextLen
            /\ doc' = r.doc
            /\ docLog' = [call |-> "applyEvent", event |-> event,
                          error |-> r.error, before |-> doc,
                          count |-> docLog.count + 1]
    /\ UNCHANGED <<otVars, sessVars, sysVars, jsonVars, editorVars>>

\* The record of a call that is not applyEvent.
DirectCall(name, error) ==
    [call |-> name, event |-> <<>>, error |-> error, before |-> doc,
     count |-> docLog.count + 1]

\* content.setParticipantPosition(id, index)
SetParticipantPosition ==
    /\ docLog.count < MaxEvents
    /\ \E id \in Ids, index \in 0..(Len(doc.content) + 1) :
        LET r == setParticipantPosition(doc, id, index)
        IN  /\ doc' = r.doc
            /\ docLog' = DirectCall("setParticipantPosition", r.error)
    /\ UNCHANGED <<otVars, sessVars, sysVars, jsonVars, editorVars>>

\* content.addParticipant(new Participant(id, cursorPos))
AddParticipant ==
    /\ docLog.count < MaxEvents
    /\ \E id \in Ids, cursorPos \in 0..(Len(doc.content) + 1) :
        /\ doc' = addParticipant(doc, id, cursorPos)
        /\ docLog' = DirectCall("addParticipant", "")
    /\ UNCHANGED <<otVars, sessVars, sysVars, jsonVars, editorVars>>

\* content.removeParticipant(id)
RemoveParticipant ==
    /\ docLog.count < MaxEvents
    /\ \E id \in Ids :
        /\ doc' = removeParticipant(doc, id)
        /\ docLog' = DirectCall("removeParticipant", "")
    /\ UNCHANGED <<otVars, sessVars, sysVars, jsonVars, editorVars>>

\* The documents given to loadDocument: a text and no participant, or one
\* participant at the start or one past the end of the text.
LoadedDocuments ==
    UNION {{ProtocolDocument(BaseText(n), participants) :
                participants \in {<<>>} \cup
                    {<<Participant(id, pos)>> :
                        id \in Ids, pos \in {0, n + 1}}} :
           n \in 0..MaxEditDocLen}

\* content.loadDocument(document)
LoadDocument ==
    /\ docLog.count < MaxEvents
    /\ \E document \in LoadedDocuments :
        /\ doc' = loadDocument(doc, document)
        /\ docLog' = DirectCall("loadDocument", "")
    /\ UNCHANGED <<otVars, sessVars, sysVars, jsonVars, editorVars>>

ContentNext ==
    \/ ApplyEvent
    \/ SetParticipantPosition
    \/ AddParticipant
    \/ RemoveParticipant
    \/ LoadDocument

-----------------------------------------------------------------------------
(* session.ts: the Session.  participantId is Undefined until Connected    *)
(* sets it; lastOperation is <<>> when the property is absent and <<op>>   *)
(* when it holds op.                                                       *)

Undefined == -1

\* new Session(seq, connection)
NewSession(seq) ==
    [seq |-> seq, clientSeq |-> 0, participantId |-> Undefined,
     sent |-> <<>>, outbox |-> <<>>, lastOperation |-> <<>>]

\* A variant of Session.write that sets a timer on every call.
SessionWriteAlwaysSchedules(s, operations) ==
    [session |-> [s EXCEPT !.outbox = s.outbox \o operations],
     scheduled |-> TRUE]

\* Session.write: the session after the call, and whether the call set a
\* timer for flush.
SessionWrite(s, operations) ==
    [session |-> [s EXCEPT !.outbox = s.outbox \o operations],
     scheduled |-> (Len(s.outbox) = 0)]

\* Session.isContentChange
isContentChange(op) ==
    CASE op.type = "Insert" -> Len(op.content) > 0
      [] op.type = "Delete" -> op.start # op.end
      [] OTHER -> FALSE

\* A variant of the loop of Session.flush that applies the cursor test to
\* every last operation, content-changing or not.
RECURSIVE PrepareCursorTestOnLast(_, _, _, _)
PrepareCursorTestOnLast(outbox, i, last, prepared) ==
    IF i > Len(outbox)
    THEN [prepared |-> prepared, last |-> last]
    ELSE LET op == outbox[i]
             moreOperations == i < Len(outbox)
             keep == IF ~moreOperations
                     THEN \/ last = <<>>
                          \/ cursorPositionAfter(op) # cursorPositionAfter(last[1])
                     ELSE isContentChange(op)
         IN  IF keep
             THEN PrepareCursorTestOnLast(outbox, i + 1, <<op>>, Append(prepared, op))
             ELSE PrepareCursorTestOnLast(outbox, i + 1, last, prepared)

\* A variant of the loop of Session.flush that keeps a cursor-only last
\* operation without comparing it with the last operation kept.
RECURSIVE PrepareKeepsLastCursor(_, _, _, _)
PrepareKeepsLastCursor(outbox, i, last, prepared) ==
    IF i > Len(outbox)
    THEN [prepared |-> prepared, last |-> last]
    ELSE LET op == outbox[i]
             moreOperations == i < Len(outbox)
             keep == isContentChange(op) \/ ~moreOperations
         IN  IF keep
             THEN PrepareKeepsLastCursor(outbox, i + 1, <<op>>, Append(prepared, op))
             ELSE PrepareKeepsLastCursor(outbox, i + 1, last, prepared)

\* A variant of the loop of Session.flush that keeps a cursor-only operation
\* wherever it stands in the outbox, when it moves the cursor.
RECURSIVE PrepareKeepsEveryCursorMove(_, _, _, _)
PrepareKeepsEveryCursorMove(outbox, i, last, prepared) ==
    IF i > Len(outbox)
    THEN [prepared |-> prepared, last |-> last]
    ELSE LET op == outbox[i]
             keep == IF isContentChange(op)
                     THEN TRUE
                     ELSE \/ last = <<>>
                          \/ cursorPositionAfter(op) # cursorPositionAfter(last[1])
         IN  IF keep
             THEN PrepareKeepsEveryCursorMove(outbox, i + 1, <<op>>,
                                              Append(prepared, op))
             ELSE PrepareKeepsEveryCursorMove(outbox, i + 1, last, prepared)

\* The loop of Session.flush from index i on: the prepared list and the
\* last operation kept.
RECURSIVE Prepare(_, _, _, _)
Prepare(outbox, i, last, prepared) ==
    IF i > Len(outbox)
    THEN [prepared |-> prepared, last |-> last]
    ELSE LET op == outbox[i]
             moreOperations == i < Len(outbox)
             keep == IF isContentChange(op)
                     THEN TRUE
                     ELSE IF ~moreOperations
                     THEN \/ last = <<>>
                          \/ cursorPositionAfter(op) # cursorPositionAfter(last[1])
                     ELSE FALSE
         IN  IF keep
             THEN Prepare(outbox, i + 1, <<op>>, Append(prepared, op))
             ELSE Prepare(outbox, i + 1, last, prepared)

\* A variant of Session.flush that increments clientSeq before it looks at
\* the prepared list.
SessionFlushCountsFirst(s) ==
    IF Len(s.outbox) = 0
    THEN [session |-> s, send |-> <<>>]
    ELSE LET p == Prepare(s.outbox, 1, s.lastOperation, <<>>)
             msg == ClientEdit(s.seq, s.clientSeq + 1, p.prepared)
         IN  IF Len(p.prepared) = 0
             THEN [session |-> [s EXCEPT !.clientSeq = s.clientSeq + 1],
                   send |-> <<>>]
             ELSE [session |->
                      [s EXCEPT !.outbox = <<>>,
                                !.clientSeq = s.clientSeq + 1,
                                !.lastOperation = p.last,
                                !.sent = Append(s.sent, msg)],
                   send |-> <<msg>>]

\* A variant of Session.flush that forgets lastOperation when it has
\* nothing to send.
SessionFlushForgetsLast(s) ==
    IF Len(s.outbox) = 0
    THEN [session |-> [s EXCEPT !.lastOperation = <<>>], send |-> <<>>]
    ELSE LET p == Prepare(s.outbox, 1, s.lastOperation, <<>>)
             msg == ClientEdit(s.seq, s.clientSeq + 1, p.prepared)
         IN  IF Len(p.prepared) = 0
             THEN [session |-> [s EXCEPT !.lastOperation = <<>>],
                   send |-> <<>>]
             ELSE [session |->
                      [s EXCEPT !.outbox = <<>>,
                                !.clientSeq = s.clientSeq + 1,
                                !.lastOperation = p.last,
                                !.sent = Append(s.sent, msg)],
                   send |-> <<msg>>]

\* A variant of Session.flush whose loop starts without the last operation
\* of the ClientEdit sent before.
SessionFlushStartsWithoutLast(s) ==
    IF Len(s.outbox) = 0
    THEN [session |-> s, send |-> <<>>]
    ELSE LET p == Prepare(s.outbox, 1, <<>>, <<>>)
             msg == ClientEdit(s.seq, s.clientSeq + 1, p.prepared)
         IN  IF Len(p.prepared) = 0
             THEN [session |-> s, send |-> <<>>]
             ELSE [session |->
                      [s EXCEPT !.outbox = <<>>,
                                !.clientSeq = s.clientSeq + 1,
                                !.lastOperation = p.last,
                                !.sent = Append(s.sent, msg)],
                   send |-> <<msg>>]

\* Session.flush: the session after the call and the messages passed to
\* connection.send (none or one ClientEdit).
SessionFlush(s) ==
    IF Len(s.outbox) = 0
    THEN [session |-> s, send |-> <<>>]
    ELSE LET p == Prepare(s.outbox, 1, s.lastOperation, <<>>)
             msg == ClientEdit(s.seq, s.clientSeq + 1, p.prepared)
         IN  IF Len(p.prepared) = 0
             THEN [session |-> s, send |-> <<>>]
             ELSE [session |->
                      [s EXCEPT !.outbox = <<>>,
                                !.clientSeq = s.clientSeq + 1,
                                !.lastOperation = p.last,
                                !.sent = Append(s.sent, msg)],
                   send |-> <<msg>>]

\* A variant of the loop of Session.transform that takes the ClientEdits of
\* sent from the newest to the oldest.
RECURSIVE TransformThroughSentNewestFirst(_, _, _)
TransformThroughSentNewestFirst(event, participantId, sent) ==
    IF sent = <<>>
    THEN event
    ELSE TransformThroughSentNewestFirst(
            EventTransform(event,
                Edit(participantId, sent[Len(sent)].operations)),
            participantId, SubSeq(sent, 1, Len(sent) - 1))

\* The loop of Session.transform over the ClientEdits of sent.
RECURSIVE TransformThroughSent(_, _, _)
TransformThroughSent(event, participantId, sent) ==
    IF sent = <<>>
    THEN event
    ELSE TransformThroughSent(
            EventTransform(event, Edit(participantId, Head(sent).operations)),
            participantId, Tail(sent))

\* Session.transform: the message rewritten, or the error thrown.
SessionTransform(s, msg) ==
    IF msg.type = "ServerEvent"
    THEN IF s.participantId = Undefined \/ s.participantId = 0
         THEN [msg |-> msg, error |-> "participantId must be defined"]
         ELSE IF msg.event.type = "Edit"
         THEN [msg |-> [msg EXCEPT !.event =
                          TransformThroughSent(msg.event, s.participantId, s.sent)],
               error |-> ""]
         ELSE [msg |-> msg, error |-> ""]
    ELSE [msg |-> msg, error |-> ""]

\* A variant of Session.receive that keeps the ClientEdit the ServerEvent
\* acknowledges.
SessionReceiveKeepsAcknowledged(s, msg) ==
    LET s1 == IF msg.type = "Connected"
              THEN [s EXCEPT !.participantId = msg.id]
              ELSE IF msg.type = "ServerEvent"
              THEN [s EXCEPT !.seq = msg.seq,
                             !.sent = SelectSeq(s.sent,
                                LAMBDA clientEdit :
                                    clientEdit.clientSeq >= msg.clientSeq)]
              ELSE s
        t == SessionTransform(s1, msg)
    IN  IF t.error # ""
        THEN [session |-> s1, emitted |-> <<>>, error |-> t.error]
        ELSE [session |-> [s1 EXCEPT !.lastOperation = <<>>],
              emitted |-> <<t.msg>>, error |-> ""]

\* A variant of Session.receive that emits the message before it rewrites
\* it.
SessionReceiveEmitsFirst(s, msg) ==
    LET s1 == IF msg.type = "Connected"
              THEN [s EXCEPT !.participantId = msg.id]
              ELSE IF msg.type = "ServerEvent"
              THEN [s EXCEPT !.seq = msg.seq,
                             !.sent = SelectSeq(s.sent,
                                LAMBDA clientEdit :
                                    clientEdit.clientSeq > msg.clientSeq)]
              ELSE s
        t == SessionTransform(s1, msg)
    IN  IF t.error # ""
        THEN [session |-> s1, emitted |-> <<msg>>, error |-> t.error]
        ELSE [session |-> [s1 EXCEPT !.lastOperation = <<>>],
              emitted |-> <<msg>>, error |-> ""]

\* A variant of Session.receive that takes the seq of a ServerEvent only
\* once the event has been rewritten.
SessionReceiveSeqAfterTransform(s, msg) ==
    LET s1 == IF msg.type = "Connected"
              THEN [s EXCEPT !.participantId = msg.id]
              ELSE IF msg.type = "ServerEvent"
              THEN [s EXCEPT !.sent = SelectSeq(s.sent,
                                LAMBDA clientEdit :
                                    clientEdit.clientSeq > msg.clientSeq)]
              ELSE s
        t == SessionTransform(s1, msg)
    IN  IF t.error # ""
        THEN [session |-> s1, emitted |-> <<>>, error |-> t.error]
        ELSE [session |-> [s1 EXCEPT !.lastOperation = <<>>,
                                     !.seq = IF msg.type = "ServerEvent"
                                             THEN msg.seq ELSE @],
              emitted |-> <<t.msg>>, error |-> ""]

\* A variant of Session.receive that rewrites the incoming Edit against the
\* operations waiting in the outbox as well, as a ClientEdit yet to be sent.
SessionReceiveThroughOutbox(s, msg) ==
    LET s1 == IF msg.type = "Connected"
              THEN [s EXCEPT !.participantId = msg.id]
              ELSE IF msg.type = "ServerEvent"
              THEN [s EXCEPT !.seq = msg.seq,
                             !.sent = SelectSeq(s.sent,
                                LAMBDA clientEdit :
                                    clientEdit.clientSeq > msg.clientSeq)]
              ELSE s
        waiting == IF s1.outbox = <<>>
                   THEN <<>>
                   ELSE <<ClientEdit(s1.seq, s1.clientSeq + 1, s1.outbox)>>
        t == SessionTransform([s1 EXCEPT !.sent = s1.sent \o waiting], msg)
    IN  IF t.error # ""
        THEN [session |-> s1, emitted |-> <<>>, error |-> t.error]
        ELSE [session |-> [s1 EXCEPT !.lastOperation = <<>>],
              emitted |-> <<t.msg>>, error |-> ""]

\* A variant of Session.receive without the delete of lastOperation.
SessionReceiveKeepsLastOperation(s, msg) ==
    LET s1 == IF msg.type = "Connected"
              THEN [s EXCEPT !.participantId = msg.id]
              ELSE IF msg.type = "ServerEvent"
              THEN [s EXCEPT !.seq = msg.seq,
                             !.sent = SelectSeq(s.sent,
                                LAMBDA clientEdit :
                                    clientEdit.clientSeq > msg.clientSeq)]
              ELSE s
        t == SessionTransform(s1, msg)
    IN  IF t.error # ""
        THEN [session |-> s1, emitted |-> <<>>, error |-> t.error]
        ELSE [session |-> s1, emitted |-> <<t.msg>>, error |-> ""]

\* A variant of Session.receive whose transform also rewrites the operations
\* of the ClientEdits left in sent against the incoming Edit.
SessionReceiveRewritesSent(s, msg) ==
    LET s1 == IF msg.type = "Connected"
              THEN [s EXCEPT !.participantId = msg.id]
              ELSE IF msg.type = "ServerEvent"
              THEN [s EXCEPT !.seq = msg.seq,
                             !.sent = SelectSeq(s.sent,
                                LAMBDA clientEdit :
                                    clientEdit.clientSeq > msg.clientSeq)]
              ELSE s
        t == SessionTransform(s1, msg)
        rewritten ==
            IF msg.type = "ServerEvent" /\ msg.event.type = "Edit"
            THEN [i \in 1..Len(s1.sent) |->
                    [s1.sent[i] EXCEPT !.operations =
                        EventTransform(
                            Edit(s1.participantId, s1.sent[i].operations),
                            msg.event).operations]]
            ELSE s1.sent
    IN  IF t.error # ""
        THEN [session |-> s1, emitted |-> <<>>, error |-> t.error]
        ELSE [session |-> [s1 EXCEPT !.lastOperation = <<>>,
                                     !.sent = rewritten],
              emitted |-> <<t.msg>>, error |-> ""]

\* A variant of Session.receive that removes from sent the one ClientEdit
\* the ServerEvent names and no other.
SessionReceiveDropsNamedOnly(s, msg) ==
    LET s1 == IF msg.type = "Connected"
              THEN [s EXCEPT !.participantId = msg.id]
              ELSE IF msg.type = "ServerEvent"
              THEN [s EXCEPT !.seq = msg.seq,
                             !.sent = SelectSeq(s.sent,
                                LAMBDA clientEdit :
                                    clientEdit.clientSeq # msg.clientSeq)]
              ELSE s
        t == SessionTransform(s1, msg)
    IN  IF t.error # ""
        THEN [session |-> s1, emitted |-> <<>>, error |-> t.error]
        ELSE [session |-> [s1 EXCEPT !.lastOperation = <<>>],
              emitted |-> <<t.msg>>, error |-> ""]

\* Session.receive: the session after the call, the messages emitted to the
\* subscribers of 'message' and the error thrown ("" when it returns).
SessionReceive(s, msg) ==
    LET s1 == IF msg.type = "Connected"
              THEN [s EXCEPT !.participantId = msg.id]
              ELSE IF msg.type = "ServerEvent"
              THEN [s EXCEPT !.seq = msg.seq,
                             !.sent = SelectSeq(s.sent,
                                LAMBDA clientEdit :
                                    clientEdit.clientSeq > msg.clientSeq)]
              ELSE s
        t == SessionTransform(s1, msg)
    IN  IF t.error # ""
        THEN [session |-> s1, emitted |-> <<>>, error |-> t.error]
        ELSE [session |-> [s1 EXCEPT !.lastOperation = <<>>],
              emitted |-> <<t.msg>>, error |-> ""]

-----------------------------------------------------------------------------
(* One Session driven by its callers: write and flush from the content     *)
(* side, the timers set by write, and messages from the connection.        *)
(* sessEnv holds what surrounds the Session: conn, the ClientEdits passed  *)
(* to connection.send; timers, the flush callbacks set and not yet run;    *)
(* emitted, the number of 'message' emissions; received, the number of     *)
(* messages delivered; call, the last call and what it returned, sent,     *)
(* emitted or threw; and for each operation of the outbox and each         *)
(* ClientEdit of conn the number of flush runs that preceded the write it  *)
(* came from; connects, the number of Connected messages delivered, and    *)
(* firstId, the id of the first; serverSeq, the seq of the last            *)
(* ServerEvent delivered; eventSinceFlush, whether a ServerEvent has been  *)
(* delivered since the last run of flush, and whether receive returned     *)
(* for one ("returned") or raised for all ("raised"); receivedSinceSend,   *)
(* whether a message has been delivered since the last ClientEdit was      *)
(* sent; outboxSeqs, for each operation of the outbox the seq of the       *)
(* Session when it was written.                                            *)

\* Most calls of write, most explicit calls of flush, most messages.
MaxWrites == 3
MaxFlushCalls == 1
MaxMessages == 3

InitialSeq == 1

\* The ids Connected can carry and the authors of remote Edits.
ConnectedIds == {0, 2}

\* The operation lists passed to write: two that change the content and two
\* that only move the cursor.
WrittenOperations ==
    {<<Insert(0, <<"x">>)>>, <<Insert(1, <<>>)>>, <<Delete(0, 1)>>,
     <<MoveCursor(1)>>}

RemoteEvents ==
    {Edit(1, <<Insert(0, <<"y">>)>>), Edit(3, <<Insert(0, <<"y">>)>>),
     Edit(3, <<Delete(0, 2)>>), Join(5)}

\* The messages the connection can deliver next.
DeliverableMessages(s) ==
    {Connected(id) : id \in ConnectedIds}
    \cup {ServerEvent(s.seq + 1, cs, event) :
            cs \in 0..s.clientSeq, event \in RemoteEvents}

SessionInit ==
    /\ session = NewSession(InitialSeq)
    /\ sessEnv = [conn |-> <<>>, timers |-> 0, emitted |-> 0,
                  received |-> 0, writes |-> 0, flushCalls |-> 0,
                  flushRuns |-> 0, outboxRuns |-> <<>>, connRuns |-> <<>>,
                  outboxSeqs |-> <<>>,
                  connects |-> 0, firstId |-> Undefined,
                  serverSeq |-> Undefined,
                  eventSinceFlush |-> "none", receivedSinceSend |-> FALSE,
                  call |-> [name |-> "new"]]
    /\ OTIdle /\ DocIdle /\ SysIdle /\ JSONIdle /\ EditorIdle

\* session.write(operations)
Write ==
    /\ sessEnv.writes < MaxWrites
    /\ \E operations \in WrittenOperations :
        LET r == SessionWrite(session, operations)
        IN  /\ session' = r.session
            /\ sessEnv' = [sessEnv EXCEPT
                    !.writes = @ + 1,
                    !.timers = IF r.scheduled THEN @ + 1 ELSE @,
                    !.outboxRuns =
                        @ \o [i \in 1..Len(operations) |-> sessEnv.flushRuns],
                    !.outboxSeqs =
                        @ \o [i \in 1..Len(operations) |-> session.seq],
                    !.call = [name |-> "write", operations |-> operations,
                              scheduled |-> r.scheduled]]
    /\ UNCHANGED <<otVars, docVars, sysVars, jsonVars, editorVars>>

\* What a run of flush does to the Session and to what surrounds it.
FlushRun(name, timers) ==
    LET r == SessionFlush(session)
    IN  /\ session' = r.session
        /\ sessEnv' = [sessEnv EXCEPT
                !.timers = timers,
                !.conn = @ \o r.send,
                !.flushRuns = @ + 1,
                !.flushCalls = IF name = "flush" THEN @ + 1 ELSE @,
                !.outboxRuns = IF r.send = <<>> THEN @ ELSE <<>>,
                !.outboxSeqs = IF r.send = <<>> THEN @ ELSE <<>>,
                !.connRuns =
                    IF r.send = <<>>
                    THEN @
                    ELSE Append(@, {sessEnv.outboxRuns[i] :
                                    i \in 1..Len(sessEnv.outboxRuns)}),
                !.eventSinceFlush = "none",
                !.receivedSinceSend = IF r.send = <<>> THEN @ ELSE FALSE,
                !.call = [name |-> name, send |-> r.send]]

\* session.flush() called by the owner of the Session
Flush ==
    /\ sessEnv.flushCalls < MaxFlushCalls
    /\ FlushRun("flush", sessEnv.timers)
    /\ UNCHANGED <<otVars, docVars, sysVars, jsonVars, editorVars>>

\* A timer set by write runs flush.
DeferredFlush ==
    /\ sessEnv.timers > 0
    /\ FlushRun("timer", sessEnv.timers - 1)
    /\ UNCHANGED <<otVars, docVars, sysVars, jsonVars, editorVars>>

\* The connection emits a message and the Session receives it.
Receive ==
    /\ sessEnv.received < MaxMessages
    /\ \E msg \in DeliverableMessages(session) :
        LET r == SessionReceive(session, msg)
        IN  /\ session' = r.session
            /\ sessEnv' = [sessEnv EXCEPT
                    !.received = @ + 1,
                    !.emitted = @ + Len(r.emitted),
                    !.connects = IF msg.type = "Connected" THEN @ + 1 ELSE @,
                    !.firstId = IF msg.type = "Connected" /\ sessEnv.connects = 0
                                THEN msg.id ELSE @,
                    !.serverSeq = IF msg.type = "ServerEvent" THEN msg.seq ELSE @,
                    !.eventSinceFlush =
                        IF msg.type # "ServerEvent" THEN @
                        ELSE IF r.error = "" THEN "returned"
                        ELSE IF @ = "returned" THEN @
                        ELSE "raised",
                    !.receivedSinceSend = TRUE,
                    !.call = [name |-> "receive", msg |-> msg,
                              emitted |-> r.emitted, error |-> r.error]]
    /\ UNCHANGED <<otVars, docVars, sysVars, jsonVars, editorVars>>

SessionNext == Write \/ Flush \/ DeferredFlush \/ Receive

\* The Session whose owner never calls flush: flush runs from the timers
\* that write sets, and a timer that is set runs in the end.
TimerNext == Write \/ DeferredFlush \/ Receive

TimerFairness == WF_vars(DeferredFlush)

-----------------------------------------------------------------------------
(* The whole system: the participants, each with a Session and a           *)
(* ContentElement wired as the editor wires them, and the server that      *)
(* sequences their ClientEdits.  The connections deliver in order and lose *)
(* nothing.  The server and the editor's wiring are not part of the        *)
(* sources modelled above: the server follows the protocol the Session     *)
(* expects (the ServerEvents of the session and editor tests), the wiring  *)
(* follows the NOTE on Session.write and the editor tests.                 *)

Participants == {1, 2}

\* A participant that joins later and only reads.
Reader == 3

\* Most local edits of one participant.
MaxLocalEdits == 1

InitialText == BaseText(1)

\* The server: its document, the seq of its last event, the events it has
\* sequenced, and per participant the clientSeq of the last ClientEdit it
\* has taken from it.
SystemInit ==
    /\ clients = [c \in Participants |->
            [session |-> NewSession(InitialSeq),
             doc |-> Document(InitialText, [id \in Participants |-> 0], 0),
             timers |-> 0,
             edits |-> 0,
             error |-> ""]]
    /\ server = [doc |-> Document(InitialText, [id \in Participants |-> 0], 0),
                 seq |-> InitialSeq,
                 events |-> <<>>,
                 clientSeq |-> [c \in Participants |-> 0]]
    /\ toServer = [c \in Participants |-> <<>>]
    /\ toClient = [c \in Participants |-> <<Connected(c)>>]
    /\ OTIdle /\ DocIdle /\ SessionIdle /\ JSONIdle /\ EditorIdle

\* The edits a participant can type into a text of the given length: one
\* character inserted anywhere or one character deleted.
LocalOperations(c, length) ==
    {Insert(p, <<AuthorChar(c)>>) : p \in 0..length}
    \cup {Delete(p, p + 1) : p \in 0..(length - 1)}

\* The editor widget changes the text under the user's hands: the markers
\* move with the text and the local cursor goes where the edit ends.
LocalChange(d, op) ==
    LET after == applyOperation(d, 0, op)
    IN  Document(after.content,
                 [id \in DOMAIN d.participants |-> after.participants[id]],
                 cursorPositionAfter(op))

\* Participant c edits its text; the content element reports the change
\* and the editor writes it to the Session in the same turn.
LocalEdit(c) ==
    /\ clients[c].edits < MaxLocalEdits
    /\ \E op \in LocalOperations(c, Len(clients[c].doc.content)) :
        LET w == SessionWrite(clients[c].session, <<op>>)
        IN  clients' = [clients EXCEPT
                ![c].doc = LocalChange(@, op),
                ![c].session = w.session,
                ![c].timers = IF w.scheduled THEN @ + 1 ELSE @,
                ![c].edits = @ + 1]
    /\ UNCHANGED <<server, toServer, toClient, otVars, docVars, sessVars, jsonVars, editorVars>>

\* A timer set by write runs flush on the Session of c.
ClientFlush(c) ==
    /\ clients[c].timers > 0
    /\ LET r == SessionFlush(clients[c].session)
       IN  /\ clients' = [clients EXCEPT ![c].session = r.session,
                                         ![c].timers = @ - 1]
           /\ toServer' = [toServer EXCEPT ![c] = @ \o r.send]
    /\ UNCHANGED <<server, toClient, otVars, docVars, sessVars, jsonVars, editorVars>>

\* content.applyMessage for each message the Session emits.
RECURSIVE applyMessages(_, _)
applyMessages(d, msgs) ==
    IF msgs = <<>>
    THEN d
    ELSE applyMessages(
            IF Head(msgs).type = "ServerEvent"
            THEN applyEvent(d, Head(msgs).event).doc
            ELSE d,
            Tail(msgs))

\* What content.applyMessage throws for the messages the Session emits:
\* the first error of applyEvent, "" when there is none.
RECURSIVE applyMessagesError(_, _)
applyMessagesError(d, msgs) ==
    IF msgs = <<>>
    THEN ""
    ELSE LET r == IF Head(msgs).type = "ServerEvent"
                  THEN applyEvent(d, Head(msgs).event)
                  ELSE [doc |-> d, error |-> ""]
         IN  IF r.error # ""
             THEN r.error
             ELSE applyMessagesError(r.doc, Tail(msgs))

\* The connection of c delivers its next message: the Session receives it
\* and the content element applies what the Session emits; error keeps
\* what the content element threw.
ClientReceive(c) ==
    /\ toClient[c] # <<>>
    /\ LET r == SessionReceive(clients[c].session, Head(toClient[c]))
       IN  clients' = [clients EXCEPT
                ![c].session = r.session,
                ![c].doc = applyMessages(@, r.emitted),
                ![c].error = applyMessagesError(clients[c].doc, r.emitted)]
    /\ toClient' = [toClient EXCEPT ![c] = Tail(@)]
    /\ UNCHANGED <<server, toServer, otVars, docVars, sessVars, jsonVars, editorVars>>

\* The Edit of a ClientEdit rewritten against the events sequenced after
\* its parentSeq; the author's own events are not concurrent with it.
RECURSIVE TransformThroughEvents(_, _, _)
TransformThroughEvents(edit, events, parentSeq) ==
    IF events = <<>>
    THEN edit
    ELSE TransformThroughEvents(
            IF /\ Head(events).seq > parentSeq
               /\ Head(events).event.type = "Edit"
               /\ Head(events).event.author # edit.author
            THEN EventTransform(edit, Head(events).event)
            ELSE edit,
            Tail(events), parentSeq)

\* The server takes the next ClientEdit of c: rewrites it, applies it,
\* gives it the next seq and sends it to every other participant with the
\* clientSeq of the last ClientEdit taken from that participant.
ServerProcess(c) ==
    /\ toServer[c] # <<>>
    /\ LET clientEdit == Head(toServer[c])
           edit == TransformThroughEvents(Edit(c, clientEdit.operations),
                                          server.events, clientEdit.parentSeq)
           r == applyEvent(server.doc, edit)
           seq == server.seq + 1
           acknowledged == [server.clientSeq EXCEPT ![c] = clientEdit.clientSeq]
       IN  /\ server' = [doc |-> r.doc,
                         seq |-> seq,
                         events |-> Append(server.events,
                                           [seq |-> seq, event |-> edit]),
                         clientSeq |-> acknowledged]
           /\ toClient' = [d \in Participants |->
                IF d = c
                THEN toClient[d]
                ELSE Append(toClient[d], ServerEvent(seq, acknowledged[d], edit))]
    /\ toServer' = [toServer EXCEPT ![c] = Tail(@)]
    /\ UNCHANGED <<clients, otVars, docVars, sessVars, jsonVars, editorVars>>

\* A reader opens the page: the server sequences its Join and sends it to
\* every participant with the clientSeq of the last ClientEdit taken from
\* that participant.
ServerJoin ==
    /\ Reader \notin DOMAIN server.doc.participants
    /\ LET event == Join(Reader)
           seq == server.seq + 1
       IN  /\ server' = [server EXCEPT
                    !.doc = applyEvent(@, event).doc,
                    !.seq = seq,
                    !.events = Append(@, [seq |-> seq, event |-> event])]
           /\ toClient' = [d \in Participants |->
                Append(toClient[d], ServerEvent(seq, server.clientSeq[d], event))]
    /\ UNCHANGED <<clients, toServer, otVars, docVars, sessVars, jsonVars, editorVars>>

SystemNext ==
    \/ \E c \in Participants :
            \/ LocalEdit(c)
            \/ ClientFlush(c)
            \/ ClientReceive(c)
            \/ ServerProcess(c)
    \/ ServerJoin

-----------------------------------------------------------------------------
(* Concurrent edits: two Edits made on the same document by different      *)
(* authors, each rewritten with Event.transform to follow the other.       *)

\* The operations an author can make on a document of the given length.
ValidOperations(author, length) ==
    {Insert(p, Repeat(AuthorChar(author), n)) :
        p \in 0..length, n \in 0..MaxContentLen}
    \cup {d \in {Delete(s, e) : s \in 0..length, e \in 0..length} : d.start <= d.end}
    \cup {MoveCursor(p) : p \in 0..length}

\* The operation lists of 1..n operations that pass canApplyOperations on a
\* document of the given length.
RECURSIVE ValidOperationLists(_, _, _)
ValidOperationLists(author, length, n) ==
    IF n = 0
    THEN {}
    ELSE UNION {
            {<<op>>} \cup
            {<<op>> \o rest :
                rest \in ValidOperationLists(
                    author, canApplyOperation(op, length).length, n - 1)}
            : op \in ValidOperations(author, length)}

\* Both Edits applied in turn; the first error stops the run.
applyEvents(d, first, second) ==
    LET r == applyEvent(d, first)
    IN  IF r.error # "" THEN r ELSE applyEvent(r.doc, second)

\* The rewrite of an operation together with the outcome of applying the
\* other author's event and then the rewrite.
Outcome(operations, r) ==
    [operations |-> operations, doc |-> r.doc, error |-> r.error]

(* Single operations: a by one author and b by the other, both valid on    *)
(* the same document, each rewritten with Operation.transform.             *)

OpInit ==
    /\ \E n \in 0..MaxDocLen, author \in {AuthorA, AuthorB} :
        LET other == IF author = AuthorA THEN AuthorB ELSE AuthorA
        IN  /\ otDoc = Document(BaseText(n), [id \in {AuthorA, AuthorB} |-> 0], 0)
            /\ \E a \in ValidOperations(author, n) : otA = Edit(author, <<a>>)
            /\ \E b \in ValidOperations(other, n) : otB = Edit(other, <<b>>)
    /\ otLeft = <<>>
    /\ otRight = <<>>
    /\ DocIdle /\ SessionIdle /\ SysIdle /\ JSONIdle /\ EditorIdle

\* a is applied, then b.transform(a, hasPriority).
OpApplyAThenB ==
    /\ otLeft = <<>>
    /\ LET bT == OperationTransform(otB.operations[1], otA.operations[1],
                                    otB.author < otA.author)
       IN  otLeft' = <<Outcome(bT, applyEvents(otDoc, otA, Edit(otB.author, bT)))>>
    /\ UNCHANGED <<otDoc, otA, otB, otRight, docVars, sessVars, sysVars, jsonVars, editorVars>>

\* b is applied, then a.transform(b, hasPriority).
OpApplyBThenA ==
    /\ otLeft # <<>>
    /\ otRight = <<>>
    /\ LET aT == OperationTransform(otA.operations[1], otB.operations[1],
                                    otA.author < otB.author)
       IN  otRight' = <<Outcome(aT, applyEvents(otDoc, otB, Edit(otA.author, aT)))>>
    /\ UNCHANGED <<otDoc, otA, otB, otLeft, docVars, sessVars, sysVars, jsonVars, editorVars>>

OpNext == OpApplyAThenB \/ OpApplyBThenA

(* Edits of one or more operations, rewritten with Event.transform.        *)

OTInit ==
    /\ \E n \in 0..MaxEditDocLen :
        /\ otDoc = Document(BaseText(n), [id \in {AuthorA, AuthorB} |-> 0], 0)
        /\ \E a \in ValidOperationLists(AuthorA, n, MaxOps) :
                otA = Edit(AuthorA, a)
        /\ \E b \in ValidOperationLists(AuthorB, n, MaxOps) :
                otB = Edit(AuthorB, b)
    /\ otLeft = <<>>
    /\ otRight = <<>>
    /\ DocIdle /\ SessionIdle /\ SysIdle /\ JSONIdle /\ EditorIdle

\* A is applied, then B rewritten by B.transform(A).
OTApplyAThenB ==
    /\ otLeft = <<>>
    /\ LET BT == EventTransform(otB, otA)
       IN  otLeft' = <<Outcome(BT.operations, applyEvents(otDoc, otA, BT))>>
    /\ UNCHANGED <<otDoc, otA, otB, otRight, docVars, sessVars, sysVars, jsonVars, editorVars>>

\* B is applied, then A rewritten by A.transform(B).
OTApplyBThenA ==
    /\ otLeft # <<>>
    /\ otRight = <<>>
    /\ LET AT == EventTransform(otA, otB)
       IN  otRight' = <<Outcome(AT.operations, applyEvents(otDoc, otB, AT))>>
    /\ UNCHANGED <<otDoc, otA, otB, otLeft, docVars, sessVars, sysVars, jsonVars, editorVars>>

OTNext == OTApplyAThenB \/ OTApplyBThenA

-----------------------------------------------------------------------------
(* Protocol objects written with toJSON and read back with the fromJSON of *)
(* a class.  json.class is the class whose static fromJSON is called,      *)
(* json.value the object, json.data <<>> or <<the data toJSON returned>>,  *)
(* json.back <<>> or <<the object fromJSON returned>>.                     *)

\* Largest position, most operations of a list, largest sequence number
\* and most participants of a Document.
MaxJSONPos == 1
MaxJSONOps == 2
MaxJSONSeq == 2
MaxJSONParticipants == 2

JSONOperations ==
    {Insert(p, c) : p \in 0..MaxJSONPos, c \in {<<>>, <<"x">>}}
    \cup {d \in {Delete(st, e) : st \in 0..MaxJSONPos, e \in 0..MaxJSONPos} :
            d.start <= d.end}
    \cup {MoveCursor(p) : p \in 0..MaxJSONPos}

\* The sequences of at most n elements of a set.
RECURSIVE SeqsUpTo(_, _)
SeqsUpTo(S, n) ==
    IF n = 0
    THEN {<<>>}
    ELSE LET shorter == SeqsUpTo(S, n - 1)
         IN  shorter \cup {Append(q, x) : q \in shorter, x \in S}

JSONEvents ==
    {Edit(author, operations) :
        author \in {AuthorA, AuthorB},
        operations \in SeqsUpTo(JSONOperations, MaxJSONOps)}
    \cup {Join(id) : id \in {AuthorA, AuthorB}}
    \cup {Leave(id) : id \in {AuthorA, AuthorB}}

JSONClientEdits ==
    {ClientEdit(parentSeq, clientSeq, operations) :
        parentSeq \in 1..MaxJSONSeq, clientSeq \in 1..MaxJSONSeq,
        operations \in SeqsUpTo(JSONOperations, MaxJSONOps)}

JSONServerMessages ==
    {Connected(id) : id \in {0, AuthorA, AuthorB}}
    \cup {ServerEvent(seq, clientSeq, event) :
            seq \in 1..MaxJSONSeq, clientSeq \in 0..(MaxJSONSeq - 1),
            event \in JSONEvents}

JSONParticipants ==
    {Participant(id, cursorPos) :
        id \in {AuthorA, AuthorB}, cursorPos \in 0..MaxJSONPos}

JSONDocuments ==
    {ProtocolDocument(BaseText(n), participants) :
        n \in 0..MaxJSONPos,
        participants \in SeqsUpTo(JSONParticipants, MaxJSONParticipants)}

\* Every object paired with the classes whose fromJSON reads it.
JSONInputs ==
    {[class |-> "Operation", value |-> x] : x \in JSONOperations}
    \cup {[class |-> "Event", value |-> x] : x \in JSONEvents}
    \cup {[class |-> c, value |-> x] :
            c \in {"ClientEdit", "ClientMessage"}, x \in JSONClientEdits}
    \cup {[class |-> "ServerMessage", value |-> x] : x \in JSONServerMessages}
    \cup {[class |-> "Document", value |-> x] : x \in JSONDocuments}
    \cup {[class |-> "Participant", value |-> x] : x \in JSONParticipants}

\* value.toJSON()
toJSON(value) ==
    CASE value.type \in {"Insert", "Delete", "MoveCursor"} ->
            OperationToJSON(value)
      [] value.type \in {"Edit", "Join", "Leave"} -> EventToJSON(value)
      [] value.type = "ClientEdit" -> ClientEditToJSON(value)
      [] value.type \in {"Connected", "ServerEvent"} ->
            ServerMessageToJSON(value)
      [] value.type = "Document" -> DocumentToJSON(value)
      [] value.type = "Participant" -> ParticipantToJSON(value)

\* class.fromJSON(data)
fromJSON(class, data) ==
    CASE class = "Operation" -> OperationFromJSON(data)
      [] class = "Event" -> EventFromJSON(data)
      [] class = "ClientEdit" -> ClientEditFromJSON(data)
      [] class = "ClientMessage" -> ClientMessageFromJSON(data)
      [] class = "ServerMessage" -> ServerMessageFromJSON(data)
      [] class = "Document" -> DocumentFromJSON(data)
      [] class = "Participant" -> ParticipantFromJSON(data)

JSONInit ==
    /\ \E input \in JSONInputs :
        json = [class |-> input.class, value |-> input.value,
                data |-> <<>>, back |-> <<>>]
    /\ OTIdle /\ DocIdle /\ SessionIdle /\ SysIdle /\ EditorIdle

\* const serialized = value.toJSON()
Serialize ==
    /\ json.data = <<>>
    /\ json' = [json EXCEPT !.data = <<toJSON(json.value)>>]
    /\ UNCHANGED <<otVars, docVars, sessVars, sysVars, editorVars>>

\* const deserialized = class.fromJSON(serialized)
Deserialize ==
    /\ json.data # <<>>
    /\ json.back = <<>>
    /\ json' = [json EXCEPT !.back = <<fromJSON(json.class, json.data[1])>>]
    /\ UNCHANGED <<otVars, docVars, sessVars, sysVars, editorVars>>

JSONNext == Serialize \/ Deserialize

-----------------------------------------------------------------------------
(* The specifications.                                                     *)

\* Single operations and their transforms.
SpecOp ==
    /\ OpInit
    /\ [][OpNext]_vars

\* Concurrent Edits and their transforms.
SpecOT ==
    /\ OTInit
    /\ [][OTNext]_vars

OTDone == otLeft # <<>> /\ otRight # <<>>

OTDefined == OTDone /\ otLeft[1].error = "" /\ otRight[1].error = ""

\* One Session and its callers.
SpecSession ==
    /\ SessionInit
    /\ [][SessionNext]_vars

\* The participants and the server.
SpecSystem ==
    /\ SystemInit
    /\ [][SystemNext]_vars

\* Every message has been delivered and every ClientEdit acknowledged.
Quiescent ==
    \A c \in Participants :
        /\ toServer[c] = <<>>
        /\ toClient[c] = <<>>
        /\ clients[c].timers = 0
        /\ clients[c].session.outbox = <<>>
        /\ clients[c].session.sent = <<>>

\* C1: convergence.  When every message has been delivered and every
\* ClientEdit has been acknowledged, the content of every participant
\* equals the content of the server.
Convergence ==
    Quiescent =>
        \A c \in Participants : clients[c].doc.content = server.doc.content

\* C2: TP1 for single operations.  For operations a and b valid on S, the
\* lower author's operation transformed with priority and the higher
\* author's without: S with a and then the rewrite of b applied has the
\* same content as S with b and then the rewrite of a applied.
TP1SingleOperations ==
    OTDefined => otLeft[1].doc.content = otRight[1].doc.content

\* Two Inserts at the same position, the case the priority decides.
TP1SingleOperationsWitness ==
    /\ OTDefined
    /\ otA.author < otB.author
    /\ otA.operations[1].type = "Insert"
    /\ otB.operations[1].type = "Insert"
    /\ otA.operations[1].pos = 1
    /\ otB.operations[1].pos = 1
    /\ Len(otA.operations[1].content) = 2
    /\ Len(otB.operations[1].content) = 1
    /\ otLeft[1].doc.content = <<"a", "y", "x", "x", "b">>
    /\ otRight[1].doc.content = <<"a", "y", "x", "x", "b">>

\* C3: for concurrent Edits A and B of one or more operations, valid on S,
\* B.transform(A) is valid after A, A.transform(B) is valid after B, and
\* both orders give the same content.
EditTransformConverges ==
    OTDone =>
        /\ otLeft[1].error = ""
        /\ otRight[1].error = ""
        /\ otLeft[1].doc.content = otRight[1].doc.content

\* Events applied to a ContentElement.
SpecContent ==
    /\ ContentInit
    /\ [][ContentNext]_vars

\* C4: atomic rejection.  When validation of the event fails, applyEvent
\* raises the error and the content, every cursor and the roster are as
\* they were before the call.
AtomicRejection ==
    (docLog.call = "applyEvent" /\ canApplyEvent(docLog.before, docLog.event) # "") =>
        /\ docLog.error = canApplyEvent(docLog.before, docLog.event)
        /\ doc = docLog.before

\* An Edit by a participant whose first operation is a valid Insert and
\* whose second operation is a Delete with start > end has been rejected.
AtomicRejectionWitness ==
    /\ docLog.call = "applyEvent"
    /\ docLog.event.type = "Edit"
    /\ docLog.event.author \in DOMAIN docLog.before.participants
    /\ Len(docLog.event.operations) = 2
    /\ docLog.event.operations[1].type = "Insert"
    /\ Len(docLog.event.operations[1].content) = 1
    /\ canApplyOperation(docLog.event.operations[1],
                         Len(docLog.before.content)).error = ""
    /\ docLog.event.operations[2].type = "Delete"
    /\ docLog.error = "InvalidOperation"
    /\ doc = docLog.before

\* The step is a call of receive, of flush (by its owner or by a timer), of
\* write.
IsReceive == sessEnv'.received = sessEnv.received + 1
IsFlush == sessEnv'.flushRuns = sessEnv.flushRuns + 1
IsWrite == sessEnv'.writes = sessEnv.writes + 1

\* C5: ack pruning.  Right after a ServerEvent with client_seq = k is
\* received, sent holds exactly the ClientEdits it held before whose
\* clientSeq > k, none removed when k = 0; and a ClientEdit that flush
\* sends is appended to sent.
AckPruning ==
    [][/\ (IsReceive /\ sessEnv'.call.msg.type = "ServerEvent") =>
            LET k == sessEnv'.call.msg.clientSeq
            IN  /\ \A i \in 1..Len(session'.sent) : session'.sent[i].clientSeq > k
                /\ \E removed \in 0..Len(session.sent) :
                    /\ session'.sent =
                        SubSeq(session.sent, removed + 1, Len(session.sent))
                    /\ \A i \in 1..removed : session.sent[i].clientSeq <= k
                /\ k = 0 => session'.sent = session.sent
       /\ (IsFlush /\ sessEnv'.call.send # <<>>) =>
            session'.sent = Append(session.sent, sessEnv'.call.send[1])
      ]_vars

\* A ServerEvent with client_seq = 1 has been received with two ClientEdits
\* unacknowledged, and the second one is left.
AckPruningWitness ==
    /\ sessEnv.call.name = "receive"
    /\ sessEnv.call.msg.type = "ServerEvent"
    /\ sessEnv.call.msg.clientSeq = 1
    /\ Len(sessEnv.conn) = 2
    /\ Len(session.sent) = 1
    /\ session.sent[1].clientSeq = 2

\* C6: the n-th ClientEdit passed to connection.send carries clientSeq = n,
\* and clientSeq is the number of ClientEdits sent, so it changes only when
\* a flush sends.
ClientSeqCountsSends ==
    /\ session.clientSeq = Len(sessEnv.conn)
    /\ \A n \in 1..Len(sessEnv.conn) : sessEnv.conn[n].clientSeq = n

\* A flush that sent nothing has run after the first ClientEdit, and a
\* second ClientEdit was sent after it.
ClientSeqCountsSendsWitness ==
    /\ Len(sessEnv.conn) = 2
    /\ sessEnv.flushRuns >= 3
    /\ sessEnv.call.name = "timer"
    /\ sessEnv.call.send # <<>>
    /\ sessEnv.call.send[1].clientSeq = 2

\* C7: write sets a timer for flush only when the outbox was empty, and
\* the operations written between two runs of flush leave the outbox in one
\* run of flush: no two ClientEdits hold operations written between the
\* same two runs.
Coalescing ==
    [][/\ sessEnv'.timers > sessEnv.timers =>
            (IsWrite /\ Len(session.outbox) = 0)
       /\ (IsWrite /\ Len(session.outbox) = 0) =>
            sessEnv'.timers = sessEnv.timers + 1
       /\ Len(sessEnv'.conn) <= Len(sessEnv.conn) + 1
       /\ \A i, j \in 1..Len(sessEnv'.connRuns) :
            i # j => sessEnv'.connRuns[i] \cap sessEnv'.connRuns[j] = {}
      ]_vars

\* Three writes before the first run of flush have set one timer, and the
\* timer's flush has sent them in one ClientEdit.
CoalescingWitness ==
    /\ sessEnv.writes = 3
    /\ sessEnv.flushRuns = 1
    /\ sessEnv.timers = 0
    /\ sessEnv.call.name = "timer"
    /\ Len(sessEnv.conn) = 1
    /\ Len(sessEnv.conn[1].operations) = 3

\* The Edit the subscribers must see for a message: the Edit rewritten
\* against the ClientEdits left in sent.
Rewritten(msg, participantId, sent) ==
    IF msg.type = "ServerEvent" /\ msg.event.type = "Edit"
    THEN [msg EXCEPT !.event =
            TransformThroughSent(msg.event, participantId, sent)]
    ELSE msg

\* C8 as stated: every message received causes exactly one emission, and a
\* ServerEvent carrying an Edit is emitted rewritten.
OneEmissionPerMessage ==
    /\ sessEnv.emitted = sessEnv.received
    /\ sessEnv.call.name = "receive" =>
        /\ Len(sessEnv.call.emitted) = 1
        /\ sessEnv.call.emitted[1] =
            Rewritten(sessEnv.call.msg, session.participantId, session.sent)

\* C8 amended: a message for which receive returns (a Connected, or a
\* ServerEvent received while participantId is set and not 0) causes
\* exactly one emission, made within the call, and a ServerEvent carrying
\* an Edit is emitted rewritten against the ClientEdits left in sent; a
\* ServerEvent received while participantId is unset or 0 makes receive
\* raise and causes no emission.
OneEmissionPerAcceptedMessage ==
    [][IsReceive =>
        LET msg == sessEnv'.call.msg
            raises == /\ msg.type = "ServerEvent"
                      /\ session.participantId \in {Undefined, 0}
        IN  IF raises
            THEN /\ sessEnv'.call.error # ""
                 /\ sessEnv'.call.emitted = <<>>
                 /\ sessEnv'.emitted = sessEnv.emitted
            ELSE /\ sessEnv'.call.error = ""
                 /\ sessEnv'.emitted = sessEnv.emitted + 1
                 /\ sessEnv'.call.emitted =
                        <<Rewritten(msg, session'.participantId, session'.sent)>>
      ]_vars

\* Participant 2 has an unacknowledged Insert at 0; the Insert at 0 of
\* participant 1 is received and emitted at 1.
OneEmissionPerAcceptedMessageWitness ==
    /\ sessEnv.call.name = "receive"
    /\ sessEnv.call.msg.type = "ServerEvent"
    /\ sessEnv.call.msg.event = Edit(1, <<Insert(0, <<"y">>)>>)
    /\ session.participantId = 2
    /\ Len(session.sent) = 1
    /\ session.sent[1].operations = <<Insert(0, <<"x">>)>>
    /\ sessEnv.call.emitted =
        <<[sessEnv.call.msg EXCEPT
            !.event = Edit(1, <<Insert(1, <<"y">>)>>)]>>

\* C9: a Connected received when participantId is already set is rejected
\* as an error, and participantId keeps the id of the first Connected.
ConnectedOnce ==
    /\ sessEnv.connects > 0 => session.participantId = sessEnv.firstId
    /\ (/\ sessEnv.call.name = "receive"
        /\ sessEnv.call.msg.type = "Connected"
        /\ sessEnv.connects > 1) => sessEnv.call.error # ""

\* C10: the ClientEdit that flush sends holds every content-changing
\* operation of the outbox, in the order written, and flush sends whenever
\* the outbox holds one.
FlushKeepsContentChanges ==
    [][IsFlush =>
        LET changes == SelectSeq(session.outbox, isContentChange)
        IN  IF sessEnv'.call.send = <<>>
            THEN changes = <<>>
            ELSE SelectSeq(sessEnv'.call.send[1].operations, isContentChange)
                    = changes
      ]_vars

\* An Insert, a MoveCursor and a Delete were written, and the one ClientEdit
\* sent holds the Insert and the Delete.
FlushKeepsContentChangesWitness ==
    /\ sessEnv.writes = 3
    /\ sessEnv.flushRuns = 1
    /\ Len(sessEnv.conn) = 1
    /\ sessEnv.conn[1].operations = <<Insert(0, <<"x">>), Delete(0, 1)>>
    /\ sessEnv.outboxRuns = <<>>
    /\ session.outbox = <<>>

\* What flush is to send for an outbox: its content-changing operations
\* in order, then its last operation when that one is cursor-only and
\* either no operation was kept before it (in this outbox, or by the last
\* flush when no message came since) or it leaves the cursor elsewhere.
Normalized(outbox, lastOperation) ==
    LET changes == SelectSeq(outbox, isContentChange)
        final == outbox[Len(outbox)]
        lastKept == IF changes # <<>>
                    THEN <<changes[Len(changes)]>>
                    ELSE lastOperation
    IN  IF outbox = <<>>
        THEN <<>>
        ELSE IF /\ ~isContentChange(final)
                /\ \/ lastKept = <<>>
                   \/ cursorPositionAfter(final) # cursorPositionAfter(lastKept[1])
        THEN Append(changes, final)
        ELSE changes

\* C11: flush keeps a cursor-only operation exactly when it is the last
\* of the outbox and no operation was kept before it or the last one kept
\* leaves the cursor elsewhere; every other cursor-only operation is dropped.
CursorOnlyKeptWhenLast ==
    [][IsFlush =>
        LET expected == Normalized(session.outbox, session.lastOperation)
        IN  IF expected = <<>>
            THEN sessEnv'.call.send = <<>>
            ELSE /\ sessEnv'.call.send # <<>>
                 /\ sessEnv'.call.send[1].operations = expected
      ]_vars

\* A MoveCursor was written alone and sent, nothing having been kept
\* before it; then an Insert and a cursor-only operation were written and
\* only the Insert was sent.
CursorOnlyKeptWhenLastWitness ==
    /\ sessEnv.writes = 3
    /\ sessEnv.flushRuns = 2
    /\ Len(sessEnv.conn) = 2
    /\ sessEnv.conn[1].operations = <<MoveCursor(1)>>
    /\ sessEnv.conn[2].operations = <<Insert(0, <<"x">>)>>
    /\ sessEnv.connRuns[2] = {1}
    /\ session.outbox = <<>>

\* C12: a flush with nothing to send (an empty outbox, or every operation
\* dropped) passes nothing to connection.send and leaves clientSeq, sent
\* and lastOperation as they were.
EmptyFlushIsNoOp ==
    [][(IsFlush /\ Normalized(session.outbox, session.lastOperation) = <<>>) =>
        /\ sessEnv'.call.send = <<>>
        /\ sessEnv'.conn = sessEnv.conn
        /\ session'.clientSeq = session.clientSeq
        /\ session'.sent = session.sent
        /\ session'.lastOperation = session.lastOperation
      ]_vars

\* An Insert was sent; a MoveCursor to the place the Insert left the cursor
\* at was written and flush ran again, sending nothing.
EmptyFlushIsNoOpWitness ==
    /\ sessEnv.writes = 2
    /\ sessEnv.flushRuns = 2
    /\ sessEnv.received = 0
    /\ Len(sessEnv.conn) = 1
    /\ sessEnv.call.name = "timer"
    /\ sessEnv.call.send = <<>>
    /\ session.lastOperation = <<Insert(0, <<"x">>)>>
    /\ session.outbox = <<MoveCursor(1)>>
    /\ session.clientSeq = 1
    /\ Len(session.sent) = 1

\* C13: a ClientEdit built by flush carries the seq the Session holds when
\* flush runs: the seq given to the constructor when no ServerEvent has
\* been received, else the seq of the last ServerEvent received.
ParentSeqIsLatestSeq ==
    [][(IsFlush /\ sessEnv'.call.send # <<>>) =>
        sessEnv'.call.send[1].parentSeq =
            IF sessEnv.serverSeq = Undefined
            THEN InitialSeq
            ELSE sessEnv.serverSeq
      ]_vars

\* An operation was written, then a ServerEvent with seq 2 was received,
\* then flush sent the operation with parentSeq 2.
ParentSeqIsLatestSeqWitness ==
    /\ sessEnv.writes = 1
    /\ sessEnv.received > 0
    /\ sessEnv.serverSeq = 2
    /\ sessEnv.call.name = "timer"
    /\ sessEnv.call.send # <<>>
    /\ sessEnv.call.send[1].parentSeq = 2

\* C14: with in-order delivery and every local edit applied and written
\* to the Session before the next message is received, content.applyEvent
\* of a received event never fails.
ReceivedEventsApply ==
    \A c \in Participants : clients[c].error = ""

\* The change of length the operations stand for: the characters of the
\* Inserts less the ranges of the Deletes.
RECURSIVE LengthChange(_)
LengthChange(operations) ==
    IF operations = <<>>
    THEN 0
    ELSE LET op == Head(operations)
         IN  (CASE op.type = "Insert" -> Len(op.content)
                [] op.type = "Delete" -> 0 - (op.end - op.start)
                [] op.type = "MoveCursor" -> 0)
             + LengthChange(Tail(operations))

\* C15: length conservation.  After an Edit that passes validation the
\* length is the length before plus the characters of its Inserts minus
\* the ranges of its Deletes; Join, Leave and MoveCursor leave the content
\* as it was.
LengthConservation ==
    (docLog.call = "applyEvent" /\ docLog.error = "") =>
        IF docLog.event.type = "Edit"
        THEN /\ Len(doc.content) =
                    Len(docLog.before.content)
                    + LengthChange(docLog.event.operations)
             /\ (\A i \in 1..Len(docLog.event.operations) :
                    docLog.event.operations[i].type = "MoveCursor")
                    => doc.content = docLog.before.content
        ELSE doc.content = docLog.before.content

\* An Edit of an Insert of one character and a Delete of two has been
\* applied and the text is one character shorter.
LengthConservationWitness ==
    /\ docLog.call = "applyEvent"
    /\ docLog.error = ""
    /\ docLog.event.type = "Edit"
    /\ Len(docLog.event.operations) = 2
    /\ docLog.event.operations[1].type = "Insert"
    /\ docLog.event.operations[2].type = "Delete"
    /\ docLog.event.operations[2].end - docLog.event.operations[2].start = 2
    /\ Len(docLog.before.content) = 2
    /\ Len(doc.content) = 1

\* C16: cursor range.  After any sequence of events, applied or rejected,
\* the cursor of every participant is within [0, length of the content].
CursorsInRange ==
    [][(/\ docLog'.count > docLog.count
        /\ docLog'.call = "applyEvent"
        /\ \A id \in DOMAIN doc.participants :
                /\ 0 <= doc.participants[id]
                /\ doc.participants[id] <= Len(doc.content)) =>
            \A id \in DOMAIN doc'.participants :
                /\ 0 <= doc'.participants[id]
                /\ doc'.participants[id] <= Len(doc'.content)]_vars

\* Participant 2 was at the end of a text of two characters and
\* participant 1 deleted the whole text: both are at 0.
CursorsInRangeWitness ==
    /\ docLog.call = "applyEvent"
    /\ docLog.error = ""
    /\ docLog.event = Edit(1, <<Delete(0, 2)>>)
    /\ docLog.before.participants[2] = 2
    /\ doc.content = <<>>
    /\ doc.participants[2] = 0

\* What the validation of one operation is to answer for a content of the
\* given length.
OperationError(op, length) ==
    IF op.type = "Delete" /\ op.start > op.end THEN "InvalidOperation"
    ELSE IF op.type = "Delete" /\ op.end > length THEN "OutsideDocument"
    ELSE IF op.type \in {"Insert", "MoveCursor"} /\ op.pos > length
    THEN "OutsideDocument"
    ELSE ""

\* C17: the operations of an Edit are checked in order, each against the
\* length the content has after the operations before it; the Edit fails
\* with the error of the first operation that fails: OutsideDocument for a
\* pos or an end past the length, InvalidOperation for a Delete with
\* start > end, wherever it lies.
ValidationRunsInOrder ==
    (/\ docLog.call = "applyEvent"
     /\ docLog.event.type = "Edit"
     /\ docLog.event.author \in DOMAIN docLog.before.participants) =>
        LET ops == docLog.event.operations
            running(i) == Len(docLog.before.content)
                          + LengthChange(SubSeq(ops, 1, i - 1))
            failing == {i \in 1..Len(ops) :
                            OperationError(ops[i], running(i)) # ""}
        IN  IF failing = {}
            THEN docLog.error = ""
            ELSE \E i \in failing :
                    /\ \A j \in failing : i <= j
                    /\ docLog.error = OperationError(ops[i], running(i))

\* An Insert at the end followed by a MoveCursor to the new end, one past
\* the old one, has been applied.
ValidationRunsInOrderWitness ==
    /\ docLog.call = "applyEvent"
    /\ docLog.error = ""
    /\ docLog.event.type = "Edit"
    /\ Len(docLog.event.operations) = 2
    /\ docLog.event.operations[1] =
            Insert(Len(docLog.before.content), <<"x">>)
    /\ docLog.event.operations[2] =
            MoveCursor(Len(docLog.before.content) + 1)
    /\ doc.participants[docLog.event.author] = Len(docLog.before.content) + 1

\* C18: roster integrity.  A Join of an id in the roster, a Leave of an id
\* not in it and an Edit by an author not in it fail with InvalidOperation
\* and change nothing; a Join that succeeds adds the id at cursor 0 and a
\* Leave that succeeds removes it, the other entries staying as they were.
RosterIntegrity ==
    docLog.call = "applyEvent" =>
        LET before == docLog.before.participants
            after == doc.participants
            event == docLog.event
        IN  CASE event.type = "Join" ->
                    IF event.id \in DOMAIN before
                    THEN docLog.error = "InvalidOperation" /\ after = before
                    ELSE /\ docLog.error = ""
                         /\ DOMAIN after = DOMAIN before \cup {event.id}
                         /\ after[event.id] = 0
                         /\ \A id \in DOMAIN before : after[id] = before[id]
              [] event.type = "Leave" ->
                    IF event.id \notin DOMAIN before
                    THEN docLog.error = "InvalidOperation" /\ after = before
                    ELSE /\ docLog.error = ""
                         /\ DOMAIN after = DOMAIN before \ {event.id}
                         /\ \A id \in DOMAIN after : after[id] = before[id]
              [] event.type = "Edit" ->
                    /\ event.author \notin DOMAIN before =>
                            docLog.error = "InvalidOperation" /\ after = before
                    /\ DOMAIN after = DOMAIN before

\* Participant 3 joined, and its second Join has been rejected.
RosterIntegrityWitness ==
    /\ docLog.count = 2
    /\ docLog.call = "applyEvent"
    /\ docLog.event = Join(3)
    /\ docLog.error = "InvalidOperation"
    /\ 3 \in DOMAIN doc.participants
    /\ doc = docLog.before

\* The Insert of this the tie-break asks for, this and other being Edits
\* of one Insert each: shifted by the length of the other content when the
\* other pos is smaller, or equal with this author's id the lower.
TieBrokenInsert(this, other) ==
    LET a == this.operations[1]
        b == other.operations[1]
        shifted == IF b.pos = a.pos
                   THEN this.author < other.author
                   ELSE b.pos < a.pos
    IN  Insert(IF shifted THEN a.pos + Len(b.content) ELSE a.pos, a.content)

\* C19: an Insert transformed against a concurrent Insert at the same pos
\* is shifted right by the length of the other content exactly when its
\* author's id is the lower; at different positions it is shifted exactly
\* when the other pos is smaller.
InsertTieBreak ==
    (/\ otA # <<>>
     /\ Len(otA.operations) = 1 /\ otA.operations[1].type = "Insert"
     /\ Len(otB.operations) = 1 /\ otB.operations[1].type = "Insert") =>
        /\ otLeft # <<>> => otLeft[1].operations = <<TieBrokenInsert(otB, otA)>>
        /\ otRight # <<>> => otRight[1].operations = <<TieBrokenInsert(otA, otB)>>

\* Two Inserts at 1: the one of the lower author has been shifted past the
\* two characters of the other, the one of the higher author stays at 1.
InsertTieBreakWitness ==
    /\ OTDefined
    /\ otA.author < otB.author
    /\ otA.operations = <<Insert(1, <<"x">>)>>
    /\ otB.operations = <<Insert(1, <<"y", "y">>)>>
    /\ otRight[1].operations = <<Insert(3, <<"x">>)>>
    /\ otLeft[1].operations = otB.operations

\* The Deletes the split asks for, d being a Delete and i a concurrent
\* Insert.
SplitDelete(d, i) ==
    LET n == Len(i.content)
    IN  IF i.pos < d.start
        THEN <<Delete(d.start + n, d.end + n)>>
        ELSE IF d.start # d.end /\ i.pos < d.end
        THEN <<Delete(i.pos + n, d.end + n), Delete(d.start, i.pos)>>
        ELSE <<d>>

\* C20: a non-empty Delete [s, e) transformed against an Insert of n
\* characters at p with s <= p < e gives the two Deletes [p+n, e+n) and
\* [s, p), in this order; an Insert at p < s shifts both ends by n; an
\* Insert at p >= e, and any Insert at p >= s when s = e, leaves the
\* Delete as it is, alone.
DeleteSplitsAroundInsert ==
    /\ (/\ otLeft # <<>>
        /\ Len(otA.operations) = 1 /\ otA.operations[1].type = "Insert"
        /\ Len(otB.operations) = 1 /\ otB.operations[1].type = "Delete") =>
            otLeft[1].operations =
                SplitDelete(otB.operations[1], otA.operations[1])
    /\ (/\ otRight # <<>>
        /\ Len(otA.operations) = 1 /\ otA.operations[1].type = "Delete"
        /\ Len(otB.operations) = 1 /\ otB.operations[1].type = "Insert") =>
            otRight[1].operations =
                SplitDelete(otA.operations[1], otB.operations[1])

\* The Delete [0, 2) against an Insert of two characters at 1 has become
\* the Deletes [3, 4) and [0, 1), and both orders leave the same text.
DeleteSplitsAroundInsertWitness ==
    /\ OTDefined
    /\ otA.operations = <<Insert(1, <<AuthorChar(otA.author),
                                      AuthorChar(otA.author)>>)>>
    /\ otB.operations = <<Delete(0, 2)>>
    /\ otLeft[1].operations = <<Delete(3, 4), Delete(0, 1)>>
    /\ otLeft[1].doc.content = otRight[1].doc.content

\* Where a cursor at q is to be after one operation of another participant:
\* an Insert moves it right when it is after the insertion point, a Delete
\* moves it to the start of the range when it is inside and left by the
\* length of the range when it is at or after the end.
FollowsOperation(q, op) ==
    CASE op.type = "Insert" ->
            IF q > op.pos THEN q + Len(op.content) ELSE q
      [] op.type = "Delete" ->
            IF q >= op.end THEN q - (op.end - op.start)
            ELSE IF q >= op.start THEN op.start
            ELSE q
      [] op.type = "MoveCursor" -> q

RECURSIVE FollowsOperations(_, _)
FollowsOperations(q, operations) ==
    IF operations = <<>>
    THEN q
    ELSE FollowsOperations(FollowsOperation(q, Head(operations)),
                           Tail(operations))

\* C21: cursors follow the text.  After an Edit that is applied, the cursor
\* of every participant other than the author is where the operations of
\* the Edit, taken in order, move it (an Insert at pos moves q > pos to
\* q + |c| and leaves q <= pos; a Delete moves q in [start, end) to start
\* and q >= end to q - (end - start)), and the cursor of the author is at
\* pos + |c| after a last Insert, at start after a last Delete and at pos
\* after a last MoveCursor.
CursorsFollowText ==
    (docLog.call = "applyEvent" /\ docLog.error = "" /\ docLog.event.type = "Edit") =>
        LET operations == docLog.event.operations
            author == docLog.event.author
            last == operations[Len(operations)]
        IN  /\ \A id \in DOMAIN docLog.before.participants \ {author} :
                doc.participants[id] =
                    FollowsOperations(docLog.before.participants[id],
                                      operations)
            /\ last.type = "Insert" =>
                doc.participants[author] = last.pos + Len(last.content)
            /\ last.type = "Delete" =>
                doc.participants[author] = last.start
            /\ last.type = "MoveCursor" =>
                doc.participants[author] = last.pos

\* Participant 2 was at 1, inside the range [0, 2) that participant 1
\* deleted, and is at 0; participant 1 is at 0 as well.
CursorsFollowTextWitness ==
    /\ docLog.call = "applyEvent"
    /\ docLog.error = ""
    /\ docLog.event = Edit(1, <<Delete(0, 2)>>)
    /\ docLog.before.participants[2] = 1
    /\ doc.participants[2] = 0
    /\ doc.participants[1] = 0

\* Where the local cursor at q is to be after a received Insert.
LocalCursorAfterInsert(q, op) ==
    IF op.pos < q THEN q + Len(op.content) ELSE q

RECURSIVE LocalCursorAfterInserts(_, _)
LocalCursorAfterInserts(q, operations) ==
    IF operations = <<>>
    THEN q
    ELSE LocalCursorAfterInserts(LocalCursorAfterInsert(q, Head(operations)),
                                 Tail(operations))

\* C25: the local cursor and a received Insert.  An Insert applied at
\* exactly the index of the local cursor leaves the local cursor at that
\* index, one strictly before it moves it right by the inserted length and
\* one strictly after it leaves it where it was.
LocalCursorKept ==
    (/\ docLog.call = "applyEvent"
     /\ docLog.error = ""
     /\ docLog.event.type = "Edit"
     /\ \A i \in 1..Len(docLog.event.operations) :
            docLog.event.operations[i].type = "Insert") =>
        /\ doc.cursor = LocalCursorAfterInserts(docLog.before.cursor,
                                                docLog.event.operations)
        /\ (/\ Len(docLog.event.operations) = 1
            /\ docLog.event.operations[1].pos = docLog.before.cursor) =>
                doc.cursor = docLog.before.cursor

\* The local cursor was at 2, the end of the text, a character was
\* inserted at 2, and the local cursor is still at 2 in a text of three.
LocalCursorKeptWitness ==
    /\ docLog.call = "applyEvent"
    /\ docLog.error = ""
    /\ docLog.event.type = "Edit"
    /\ Len(docLog.event.operations) = 1
    /\ docLog.event.operations[1] = Insert(2, <<"x">>)
    /\ docLog.before.cursor = 2
    /\ doc.cursor = 2
    /\ Len(doc.content) = 3

\* The only operation of an Edit of one operation.
Only(edit) == edit.operations[1]

\* otLeft holds the rewrite of otB against otA and otRight the rewrite of
\* otA against otB: the rewrites made so far, each as <<this, other,
\* result, hasPriority>>.
Rewrites ==
    (IF otLeft # <<>> /\ Len(otA.operations) = 1 /\ Len(otB.operations) = 1
     THEN {<<Only(otB), Only(otA), otLeft[1].operations,
             otB.author < otA.author>>}
     ELSE {})
    \cup
    (IF otRight # <<>> /\ Len(otA.operations) = 1 /\ Len(otB.operations) = 1
     THEN {<<Only(otA), Only(otB), otRight[1].operations,
             otA.author < otB.author>>}
     ELSE {})

\* The characters of the range [start, end).
Range(d) == {i \in 0..(d.end - 1) : d.start <= i}

\* C26: Delete [s, e) transformed against a concurrent Delete [s2, e2) is a
\* single Delete whose start is s less the characters of [s2, e2) before
\* s and whose length is (e - s) less the size of the intersection of the
\* two ranges; identical ranges give an empty Delete; 0 <= start <= end.
DeleteAgainstDelete ==
    \A r \in Rewrites :
        (r[1].type = "Delete" /\ r[2].type = "Delete") =>
            LET before == Cardinality({i \in Range(r[2]) : i < r[1].start})
                common == Cardinality(Range(r[1]) \cap Range(r[2]))
            IN  /\ Len(r[3]) = 1
                /\ r[3][1].type = "Delete"
                /\ r[3][1].start = r[1].start - before
                /\ r[3][1].end - r[3][1].start =
                        (r[1].end - r[1].start) - common
                /\ r[1] = r[2] => r[3][1].start = r[3][1].end
                /\ 0 <= r[3][1].start
                /\ r[3][1].start <= r[3][1].end

\* The Delete [1, 3) against the Delete [0, 2) has become the Delete
\* [0, 1), and the Delete [0, 2) against [1, 3) the Delete [0, 1) as well.
DeleteAgainstDeleteWitness ==
    /\ OTDefined
    /\ otA.operations = <<Delete(1, 3)>>
    /\ otB.operations = <<Delete(0, 2)>>
    /\ otRight[1].operations = <<Delete(0, 1)>>
    /\ otLeft[1].operations = <<Delete(0, 1)>>

\* Where a position is to be after a concurrent Delete.
PositionAfterDelete(pos, d) ==
    IF d.start >= pos THEN pos
    ELSE IF pos <= d.end THEN d.start
    ELSE pos - (d.end - d.start)

\* C27: an Insert or a MoveCursor at pos transformed against a concurrent
\* Delete [s2, e2) keeps pos when s2 >= pos, has pos = s2 when
\* s2 < pos <= e2 and pos - (e2 - s2) when pos > e2, is otherwise the
\* operation it was, and its position is never negative.
PositionAgainstDelete ==
    \A r \in Rewrites :
        (r[1].type \in {"Insert", "MoveCursor"} /\ r[2].type = "Delete") =>
            /\ Len(r[3]) = 1
            /\ r[3][1] = [r[1] EXCEPT !.pos = PositionAfterDelete(r[1].pos, r[2])]
            /\ r[3][1].pos >= 0

\* The MoveCursor to 2 against the Delete [1, 3) has become the MoveCursor
\* to 1.
PositionAgainstDeleteWitness ==
    /\ OTDefined
    /\ otA.operations = <<MoveCursor(2)>>
    /\ otB.operations = <<Delete(1, 3)>>
    /\ otRight[1].operations = <<MoveCursor(1)>>

\* C28: a MoveCursor transformed against a concurrent Insert at the same
\* pos stays at pos whichever author is the lower; it is shifted right by
\* the inserted length exactly when the pos of the Insert is strictly
\* smaller; an Insert or a Delete transformed against a concurrent
\* MoveCursor is not changed.
MoveCursorNoTieBreak ==
    \A r \in Rewrites :
        /\ (r[1].type = "MoveCursor" /\ r[2].type = "Insert") =>
                r[3] = <<MoveCursor(IF r[2].pos < r[1].pos
                                    THEN r[1].pos + Len(r[2].content)
                                    ELSE r[1].pos)>>
        /\ (r[1].type \in {"Insert", "Delete"} /\ r[2].type = "MoveCursor") =>
                r[3] = <<r[1]>>

\* The lower author moves the cursor to 1 and the higher inserts two
\* characters at 1: the MoveCursor is still to 1 and the Insert is as it
\* was.
MoveCursorNoTieBreakWitness ==
    /\ OTDefined
    /\ otA.author < otB.author
    /\ otA.operations = <<MoveCursor(1)>>
    /\ Len(otB.operations) = 1
    /\ otB.operations[1].type = "Insert"
    /\ otB.operations[1].pos = 1
    /\ Len(otB.operations[1].content) = 2
    /\ otRight[1].operations = <<MoveCursor(1)>>
    /\ otLeft[1].operations = otB.operations

\* C23: the outbox is neither read nor rewritten by receive.  receive
\* leaves the outbox as it was, and what it emits is what it would emit
\* with any other operations waiting in the outbox, or with none: it
\* depends on the message received and on sent only.
OutboxUntouchedByReceive ==
    [][IsReceive =>
        /\ session'.outbox = session.outbox
        /\ \A outbox \in {<<>>} \cup WrittenOperations :
            sessEnv'.call.emitted =
                SessionReceive([session EXCEPT !.outbox = outbox],
                               sessEnv'.call.msg).emitted
      ]_vars

\* The Insert at 0 of participant 1 has been received by participant 2
\* while an Insert at 0 was waiting in the outbox, nothing being
\* unacknowledged: the Insert is emitted at 0 and the outbox still holds
\* the operation.
OutboxUntouchedByReceiveWitness ==
    /\ sessEnv.call.name = "receive"
    /\ sessEnv.call.msg.type = "ServerEvent"
    /\ sessEnv.call.msg.event = Edit(1, <<Insert(0, <<"y">>)>>)
    /\ session.participantId = 2
    /\ session.sent = <<>>
    /\ session.outbox = <<Insert(0, <<"x">>)>>
    /\ sessEnv.call.emitted = <<sessEnv.call.msg>>

\* The event rewritten against the ClientEdits of sent numbered n..top, in
\* increasing clientSeq, each as an Edit of the participant.
RECURSIVE AgainstUnacknowledged(_, _, _, _, _)
AgainstUnacknowledged(event, participantId, sent, n, top) ==
    IF n > top
    THEN event
    ELSE LET numbered == {i \in 1..Len(sent) : sent[i].clientSeq = n}
         IN  IF numbered = {}
             THEN AgainstUnacknowledged(event, participantId, sent, n + 1, top)
             ELSE AgainstUnacknowledged(
                    EventTransform(event,
                        Edit(participantId,
                             sent[CHOOSE i \in numbered : TRUE].operations)),
                    participantId, sent, n + 1, top)

\* C29: an Edit received in a ServerEvent with client_seq = k is emitted
\* rewritten against the ClientEdits that sent held with clientSeq > k and
\* against no other, in increasing clientSeq, each taken as an Edit of the
\* local participantId; the ClientEdits with clientSeq <= k have no part
\* in it.
TransformAgainstUnacknowledged ==
    [][(/\ IsReceive
        /\ sessEnv'.call.msg.type = "ServerEvent"
        /\ sessEnv'.call.msg.event.type = "Edit"
        /\ sessEnv'.call.error = "") =>
            /\ Len(sessEnv'.call.emitted) = 1
            /\ sessEnv'.call.emitted[1].event =
                AgainstUnacknowledged(sessEnv'.call.msg.event,
                                      session.participantId, session.sent,
                                      sessEnv'.call.msg.clientSeq + 1,
                                      session.clientSeq)
      ]_vars

\* Two ClientEdits were sent, a Delete [0, 1) and then an Insert at 0, and
\* after one Connected the Insert at 0 of participant 1 arrives with
\* client_seq = 1: the first ClientEdit is gone from sent and the Insert
\* is emitted at 1, moved by the second ClientEdit alone.
TransformAgainstUnacknowledgedWitness ==
    /\ sessEnv.call.name = "receive"
    /\ sessEnv.received = 2
    /\ sessEnv.call.msg.type = "ServerEvent"
    /\ sessEnv.call.msg.clientSeq = 1
    /\ sessEnv.call.msg.event = Edit(1, <<Insert(0, <<"y">>)>>)
    /\ session.participantId = 2
    /\ Len(sessEnv.conn) = 2
    /\ sessEnv.conn[1].operations = <<Delete(0, 1)>>
    /\ sessEnv.conn[2].operations = <<Insert(0, <<"x">>)>>
    /\ session.sent = <<sessEnv.conn[2]>>
    /\ sessEnv.call.emitted[1].event = Edit(1, <<Insert(1, <<"y">>)>>)

\* The last operation of a non-empty list.
Trailing(operations) == operations[Len(operations)]

\* Whether a content-changing operation before the last of the outbox
\* leaves the cursor where the last operation puts it, the last such
\* operation being the one that counts.
Shadowed(outbox) ==
    LET changes == {i \in 1..(Len(outbox) - 1) : isContentChange(outbox[i])}
    IN  /\ changes # {}
        /\ LET i == CHOOSE i \in changes : \A j \in changes : j <= i
           IN  cursorPositionAfter(outbox[i]) =
                    cursorPositionAfter(Trailing(outbox))

\* C22 as stated: after any ServerEvent is received lastOperation is
\* absent, and the first run of flush after a ServerEvent that finds a
\* trailing cursor-only operation in the outbox sends a ClientEdit that
\* ends with it.
ServerEventClearsLastOperation ==
    [][/\ (IsReceive /\ sessEnv'.call.msg.type = "ServerEvent") =>
            session'.lastOperation = <<>>
       /\ (/\ IsFlush
           /\ sessEnv.eventSinceFlush # "none"
           /\ session.outbox # <<>>
           /\ ~isContentChange(Trailing(session.outbox))) =>
                /\ sessEnv'.call.send # <<>>
                /\ Trailing(sessEnv'.call.send[1].operations) =
                        Trailing(session.outbox)
      ]_vars

\* C22 amended: a ServerEvent for which receive returns leaves
\* lastOperation absent, and one for which it raises leaves lastOperation
\* as it was; the first run of flush after a ServerEvent for which receive
\* returned sends a trailing cursor-only operation as the last operation
\* of a new ClientEdit, whatever was sent before the ServerEvent, unless
\* the last content-changing operation before it in the outbox leaves the
\* cursor at the same position, and then the ClientEdit is sent without
\* it.
ReturnedServerEventClearsLastOperation ==
    [][/\ (IsReceive /\ sessEnv'.call.msg.type = "ServerEvent") =>
            IF sessEnv'.call.error = ""
            THEN session'.lastOperation = <<>>
            ELSE session'.lastOperation = session.lastOperation
       /\ (/\ IsFlush
           /\ sessEnv.eventSinceFlush = "returned"
           /\ session.outbox # <<>>
           /\ ~isContentChange(Trailing(session.outbox))) =>
                IF Shadowed(session.outbox)
                THEN /\ sessEnv'.call.send # <<>>
                     /\ isContentChange(
                            Trailing(sessEnv'.call.send[1].operations))
                ELSE /\ sessEnv'.call.send # <<>>
                     /\ Trailing(sessEnv'.call.send[1].operations) =
                            Trailing(session.outbox)
                     /\ sessEnv'.call.send[1].clientSeq =
                            session.clientSeq + 1
      ]_vars

\* An Insert of one character at 0 was sent, which leaves the cursor at 1;
\* a Connected and then a ServerEvent were received and emitted; the
\* second run of flush found a MoveCursor to 1 in the outbox and has sent
\* it in a second ClientEdit, whose parent is the seq of the ServerEvent.
ReturnedServerEventClearsLastOperationWitness ==
    /\ sessEnv.call.name \in {"flush", "timer"}
    /\ sessEnv.flushRuns = 2
    /\ sessEnv.received = 2
    /\ sessEnv.emitted = 2
    /\ sessEnv.connects = 1
    /\ Len(sessEnv.conn) = 2
    /\ sessEnv.conn[1] = ClientEdit(InitialSeq, 1, <<Insert(0, <<"x">>)>>)
    /\ sessEnv.call.send = <<sessEnv.conn[2]>>
    /\ sessEnv.conn[2] = ClientEdit(sessEnv.serverSeq, 2, <<MoveCursor(1)>>)
    /\ sessEnv.serverSeq # InitialSeq

\* C30: when no message has been received since the last ClientEdit was
\* sent and the outbox holds cursor-only operations and no other, flush
\* compares the last of them with the last operation of that ClientEdit:
\* it sends nothing and changes nothing when both leave the cursor at the
\* same position, and sends the last operation alone when they do not.
QuietFlushComparesWithLastSent ==
    [][(/\ IsFlush
        /\ sessEnv.conn # <<>>
        /\ ~sessEnv.receivedSinceSend
        /\ session.outbox # <<>>
        /\ \A i \in 1..Len(session.outbox) :
                ~isContentChange(session.outbox[i])) =>
            LET lastSent ==
                    Trailing(sessEnv.conn[Len(sessEnv.conn)].operations)
            IN  IF cursorPositionAfter(Trailing(session.outbox)) =
                        cursorPositionAfter(lastSent)
                THEN /\ sessEnv'.call.send = <<>>
                     /\ sessEnv'.conn = sessEnv.conn
                     /\ session' = session
                ELSE sessEnv'.call.send =
                        <<ClientEdit(session.seq, session.clientSeq + 1,
                                     <<Trailing(session.outbox)>>)>>
      ]_vars

\* An Insert of one character at 0 was sent, no message has been
\* received, and the second run of flush found a MoveCursor to 1 in the
\* outbox: it has sent nothing.
QuietFlushComparesWithLastSentWitness ==
    /\ sessEnv.call.name \in {"flush", "timer"}
    /\ sessEnv.flushRuns = 2
    /\ sessEnv.received = 0
    /\ sessEnv.conn = <<ClientEdit(InitialSeq, 1, <<Insert(0, <<"x">>)>>)>>
    /\ session.outbox = <<MoveCursor(1)>>
    /\ sessEnv.call.send = <<>>

\* Objects through toJSON and back through fromJSON.
SpecJSON ==
    /\ JSONInit
    /\ [][JSONNext]_vars

\* C24: JSON round trip.  The object fromJSON makes of the data toJSON
\* returned equals the object toJSON was called on, and is of the same
\* variant, for every Operation, Event, ClientEdit, ServerMessage,
\* Document and Participant.
JSONRoundTrip ==
    (json # <<>> /\ json.back # <<>>) =>
        /\ json.back[1] = json.value
        /\ json.back[1].type = json.value.type

\* A ServerEvent with seq 2 and client_seq 1 that carries an Edit of an
\* Insert and a Delete has been written as an Event keyed by client_seq,
\* event and seq, and read back as it was.
JSONRoundTripWitness ==
    /\ json # <<>>
    /\ json.class = "ServerMessage"
    /\ json.value =
        ServerEvent(2, 1, Edit(1, <<Insert(1, <<"x">>), Delete(0, 1)>>))
    /\ json.data =
        <<[Event |->
            [client_seq |-> 1,
             event |->
                [Edit |->
                    [author |-> 1,
                     operations |->
                        <<[Insert |-> [pos |-> 1, content |-> <<"x">>]],
                          [Delete |-> [start |-> 0, end |-> 1]]>>]],
             seq |-> 2]]>>
    /\ json.back = <<json.value>>

\* C31: receive does not change a ClientEdit that was sent.  A receive
\* leaves what was passed to connection.send as it was, every ClientEdit
\* of sent after it is one sent held before it, and is the ClientEdit of
\* its clientSeq as it was passed to connection.send: parentSeq, clientSeq
\* and operations; only the incoming event is rewritten.
SentUnchangedByReceive ==
    [][IsReceive =>
        /\ sessEnv'.conn = sessEnv.conn
        /\ \A i \in 1..Len(session'.sent) :
            /\ \E j \in 1..Len(session.sent) :
                    session'.sent[i] = session.sent[j]
            /\ session'.sent[i].clientSeq \in 1..Len(sessEnv.conn)
            /\ session'.sent[i] = sessEnv.conn[session'.sent[i].clientSeq]
      ]_vars

\* Participant 2 has the Insert at 0 unacknowledged and receives the Insert
\* at 0 of participant 1: the incoming Insert is emitted at 1, and the
\* ClientEdit in sent is the one that was sent, its Insert still at 0.
SentUnchangedByReceiveWitness ==
    /\ sessEnv.call.name = "receive"
    /\ sessEnv.call.msg.type = "ServerEvent"
    /\ sessEnv.call.msg.event = Edit(1, <<Insert(0, <<"y">>)>>)
    /\ sessEnv.call.error = ""
    /\ sessEnv.call.emitted[1].event = Edit(1, <<Insert(1, <<"y">>)>>)
    /\ session.participantId = 2
    /\ Len(sessEnv.conn) = 1
    /\ session.sent = sessEnv.conn
    /\ session.sent[1].operations = <<Insert(0, <<"x">>)>>

\* C32: sent is a suffix of the ClientEdits passed to connection.send so
\* far, with no gap; its entries are in strictly increasing clientSeq and
\* none has a clientSeq above that of the session.
SentIsSuffixOfSends ==
    /\ \E k \in 0..Len(sessEnv.conn) :
        session.sent = SubSeq(sessEnv.conn, k + 1, Len(sessEnv.conn))
    /\ \A i \in 1..Len(session.sent) :
        /\ session.sent[i].clientSeq <= session.clientSeq
        /\ i > 1 => session.sent[i - 1].clientSeq < session.sent[i].clientSeq

\* Two ClientEdits were sent and a ServerEvent with client_seq = 1 has been
\* received: sent holds the second alone.
SentIsSuffixOfSendsWitness ==
    /\ sessEnv.call.name = "receive"
    /\ sessEnv.call.msg.type = "ServerEvent"
    /\ sessEnv.call.msg.clientSeq = 1
    /\ Len(sessEnv.conn) = 2
    /\ session.sent = <<sessEnv.conn[2]>>
    /\ session.clientSeq = 2

\* C34: a ServerEvent received before any Connected is rejected without
\* effect: receive raises, nothing is emitted, and seq, sent and
\* lastOperation are what they were before the call.
EarlyServerEventHasNoEffect ==
    [][(/\ IsReceive
        /\ sessEnv'.call.msg.type = "ServerEvent"
        /\ sessEnv.connects = 0) =>
            /\ sessEnv'.call.error # ""
            /\ sessEnv'.call.emitted = <<>>
            /\ session'.seq = session.seq
            /\ session'.sent = session.sent
            /\ session'.lastOperation = session.lastOperation
      ]_vars

\* C35: whatever id Connected has assigned, 0 included, a ServerEvent
\* received afterwards is emitted, and receive raises no error.
EveryAssignedIdTransforms ==
    [][(/\ IsReceive
        /\ sessEnv'.call.msg.type = "ServerEvent"
        /\ sessEnv.connects > 0) =>
            /\ sessEnv'.call.error = ""
            /\ Len(sessEnv'.call.emitted) = 1
      ]_vars

\* An Insert with content or a Delete of a non-empty range.
ChangesContent(op) ==
    \/ op.type = "Insert" /\ Len(op.content) > 0
    \/ op.type = "Delete" /\ op.start # op.end

\* C39: every ClientEdit passed to connection.send has operations, and
\* every one of them but the last, which may be either, changes the
\* content.
SentEditsAreNormalized ==
    \A n \in 1..Len(sessEnv.conn) :
        LET operations == sessEnv.conn[n].operations
        IN  /\ operations # <<>>
            /\ \A i \in 1..(Len(operations) - 1) : ChangesContent(operations[i])

\* Three writes, of which one was a cursor-only operation followed by
\* another operation, went into one ClientEdit: the Delete [0, 1) and,
\* after it, the MoveCursor to 1.
SentEditsAreNormalizedWitness ==
    /\ sessEnv.writes = 3
    /\ Len(sessEnv.conn) = 1
    /\ sessEnv.conn[1].operations = <<Delete(0, 1), MoveCursor(1)>>
    /\ session.outbox = <<>>

\* The Session left to its timers.
SpecSessionTimers ==
    /\ SessionInit
    /\ [][TimerNext]_vars
    /\ TimerFairness

\* An operation that changes the content is waiting in the outbox.
ContentChangeWaiting ==
    \E i \in 1..Len(session.outbox) : ChangesContent(session.outbox[i])

\* C36: with every timer that write sets running in the end and no call of
\* flush by the owner, an operation that changes the content and was
\* passed to write is sent in the end: it does not wait in the outbox for
\* ever.
LocalEditsAreSent == ContentChangeWaiting ~> ~ContentChangeWaiting

\* C37: the operations of a ClientEdit were all written while the seq of
\* the Session was the parentSeq of the ClientEdit: when flush sends, every
\* operation of the outbox that it keeps was written at the seq it sends
\* as parent_seq.
ParentSeqIsSeqAtWrite ==
    [][(IsFlush /\ sessEnv'.call.send # <<>>) =>
        LET sent == sessEnv'.call.send[1]
            kept == {i \in 1..Len(session.outbox) :
                        \/ ChangesContent(session.outbox[i])
                        \/ /\ i = Len(session.outbox)
                           /\ ~ChangesContent(Trailing(sent.operations))}
        IN  \A i \in kept : sessEnv.outboxSeqs[i] = sent.parentSeq
      ]_vars

\* Whether the operations pass validation one after the other on a content
\* of the given length, each against the length the ones before it leave.
RECURSIVE AllValid(_, _)
AllValid(operations, length) ==
    \/ operations = <<>>
    \/ /\ OperationError(Head(operations), length) = ""
       /\ AllValid(Tail(operations),
                   length + LengthChange(<<Head(operations)>>))

\* C38: a single-operation transform preserves validity.  For a and b
\* valid on S, the operations a.transform(b, p) returns pass validation in
\* the order returned on S with b applied, with and without priority:
\* every returned Delete has start <= end, no returned position is past
\* the length, and applying them after b raises no error.
TransformPreservesValidity ==
    /\ \A r \in Rewrites :
        AllValid(r[3], Len(otDoc.content) + LengthChange(<<r[2]>>))
    /\ otLeft # <<>> => otLeft[1].error = ""
    /\ otRight # <<>> => otRight[1].error = ""

\* The Delete of a whole text of three characters against an Insert of two
\* characters at 1 came back as the Deletes [3, 5) and [0, 1); applied in
\* this order after the Insert they leave the two characters inserted.
TransformPreservesValidityWitness ==
    /\ OTDone
    /\ Len(otDoc.content) = 3
    /\ otA.operations = <<Delete(0, 3)>>
    /\ Len(otB.operations) = 1
    /\ otB.operations[1].type = "Insert"
    /\ otB.operations[1].pos = 1
    /\ Len(otB.operations[1].content) = 2
    /\ otRight[1].operations = <<Delete(3, 5), Delete(0, 1)>>
    /\ otRight[1].error = ""
    /\ otRight[1].doc.content = otB.operations[1].content

-----------------------------------------------------------------------------
(* content.ts: the change notifications of a ContentElement.  The editing  *)
(* widget signals "cursorActivity" and "changes" for every change of its   *)
(* text, whoever makes it; the listeners the constructor gives it turn the *)
(* signals into "change" notifications unless applyingEvent is set.  A     *)
(* notification is a list of operations.                                   *)

CursorActivity(pos) == [type |-> "cursorActivity", pos |-> pos]
Change(from, text, removed) ==
    [from |-> from, text |-> text, removed |-> removed]
Changes(changes) == [type |-> "changes", changes |-> changes]

\* The listener of "cursorActivity": the notifications it emits.
onCursorActivity(applyingEvent, pos) ==
    IF applyingEvent THEN <<>> ELSE << <<MoveCursor(pos)>> >>

\* The loop of the listener of "changes" over the changes signalled.
RECURSIVE changeOperations(_)
changeOperations(changes) ==
    IF changes = <<>>
    THEN <<>>
    ELSE LET change == Head(changes)
             start == change.from
         IN  (IF Len(change.removed) > 0
              THEN <<Delete(start, start + Len(change.removed))>>
              ELSE <<>>)
             \o (IF Len(change.text) > 0
                 THEN <<Insert(start, change.text)>>
                 ELSE <<>>)
             \o changeOperations(Tail(changes))

\* A variant of the listener of "changes" that does not look at
\* applyingEvent.
onChangesWhileApplying(applyingEvent, changes) ==
    LET operations == changeOperations(changes)
    IN  IF Len(operations) > 0 THEN <<operations>> ELSE <<>>

\* The listener of "changes": the notifications it emits.
onChanges(applyingEvent, changes) ==
    IF applyingEvent
    THEN <<>>
    ELSE LET operations == changeOperations(changes)
         IN  IF Len(operations) > 0 THEN <<operations>> ELSE <<>>

\* The notifications the listeners emit for a list of signals.
RECURSIVE Notifications(_, _)
Notifications(applyingEvent, signals) ==
    IF signals = <<>>
    THEN <<>>
    ELSE LET signal == Head(signals)
         IN  (IF signal.type = "cursorActivity"
              THEN onCursorActivity(applyingEvent, signal.pos)
              ELSE onChanges(applyingEvent, signal.changes))
             \o Notifications(applyingEvent, Tail(signals))

\* The signals of the widget during applyOperation: replaceRange signals
\* "cursorActivity" and then "changes", and setCursor signals
\* "cursorActivity"; the bookmarks of the participants signal nothing.
applyOperationSignals(d, author, op) ==
    LET after == applyOperation(d, author, op)
    IN  CASE op.type = "Insert" ->
                <<CursorActivity(after.cursor),
                  Changes(<<Change(op.pos, op.content, <<>>)>>)>>
                \o (IF op.pos = d.cursor
                    THEN <<CursorActivity(op.pos)>>
                    ELSE <<>>)
          [] op.type = "Delete" ->
                <<CursorActivity(after.cursor),
                  Changes(<<Change(op.start, <<>>,
                                   SubSeq(d.content, op.start + 1, op.end))>>)>>
          [] op.type = "MoveCursor" -> <<>>

\* The signals during the loop of applyEvent over the operations of an Edit.
RECURSIVE applyOperationsSignals(_, _, _)
applyOperationsSignals(d, author, operations) ==
    IF operations = <<>>
    THEN <<>>
    ELSE applyOperationSignals(d, author, Head(operations))
         \o applyOperationsSignals(applyOperation(d, author, Head(operations)),
                                   author, Tail(operations))

\* ContentElement.applyEvent with its listeners: the document and
\* applyingEvent after the call, the notifications emitted during it and
\* the error it throws.  canApplyEvent throws before applyingEvent is set.
applyEventEmitting(d, applyingEvent, event) ==
    LET r == applyEvent(d, event)
        during == TRUE
        signals == IF event.type = "Edit"
                   THEN applyOperationsSignals(d, event.author,
                                               event.operations)
                   ELSE <<>>
    IN  IF r.error # ""
        THEN [doc |-> d, applyingEvent |-> applyingEvent,
              emitted |-> <<>>, error |-> r.error]
        ELSE [doc |-> r.doc, applyingEvent |-> FALSE,
              emitted |-> Notifications(during, signals), error |-> ""]

\* The user replaces the range from start to end with text: the document
\* after it and the signals of the widget.
LocalReplace(d, start, end, text) ==
    LET cut == IF start < end THEN LocalChange(d, Delete(start, end)) ELSE d
        put == IF Len(text) > 0 THEN LocalChange(cut, Insert(start, text))
               ELSE [cut EXCEPT !.cursor = start]
    IN  [doc |-> put,
         signals |-> <<CursorActivity(put.cursor),
                       Changes(<<Change(start, text,
                                        SubSeq(d.content, start + 1, end))>>)>>]

\* The editor's listener of "change" writes each notification to the
\* Session: the session after the writes and the timers they set.
RECURSIVE WriteNotifications(_, _, _)
WriteNotifications(s, timers, notifications) ==
    IF notifications = <<>>
    THEN [session |-> s, timers |-> timers]
    ELSE LET w == SessionWrite(s, Head(notifications))
         IN  WriteNotifications(w.session,
                                IF w.scheduled THEN timers + 1 ELSE timers,
                                Tail(notifications))

\* Most calls in one run of the editor.
MaxEditorCalls == 3

\* The text the user types.
TypedTexts == {<<>>, <<"z">>}

\* A loaded document with participant 1, a new Session, nothing sent.
EditorInit ==
    /\ \E n \in 0..MaxEditDocLen :
        \E c \in {0, n} :
            editor = [doc |-> Document(BaseText(n), (1 :> 0), c),
                      applyingEvent |-> FALSE,
                      session |-> NewSession(InitialSeq),
                      timers |-> 0,
                      conn |-> <<>>,
                      calls |-> 0,
                      applied |-> 0,
                      rejected |-> 0,
                      call |-> <<>>]
    /\ OTIdle /\ DocIdle /\ SessionIdle /\ SysIdle /\ JSONIdle

\* content.applyEvent(event) on an event from the server.
EditorApplyEvent ==
    /\ editor.calls < MaxEditorCalls
    /\ \E event \in OfferedEvents(Len(editor.doc.content)) :
        LET r == applyEventEmitting(editor.doc, editor.applyingEvent, event)
            w == WriteNotifications(editor.session, editor.timers, r.emitted)
        IN  /\ Len(r.doc.content) <= MaxTextLen
            /\ editor' = [editor EXCEPT
                    !.doc = r.doc,
                    !.applyingEvent = r.applyingEvent,
                    !.session = w.session,
                    !.timers = w.timers,
                    !.calls = @ + 1,
                    !.applied = IF r.error = "" THEN @ + 1 ELSE @,
                    !.rejected = IF r.error # "" THEN @ + 1 ELSE @,
                    !.call = [name |-> "applyEvent",
                              emitted |-> r.emitted,
                              error |-> r.error]]
    /\ UNCHANGED <<otVars, docVars, sessVars, sysVars, jsonVars>>

\* The user edits the text or moves the cursor.
EditorLocalEdit ==
    /\ editor.calls < MaxEditorCalls
    /\ \E start \in 0..Len(editor.doc.content), text \in TypedTexts :
        \E end \in start..Len(editor.doc.content) :
            LET r == LocalReplace(editor.doc, start, end, text)
                emitted == Notifications(editor.applyingEvent, r.signals)
                w == WriteNotifications(editor.session, editor.timers,
                                        emitted)
            IN  /\ Len(r.doc.content) <= MaxTextLen
                /\ editor' = [editor EXCEPT
                        !.doc = r.doc,
                        !.session = w.session,
                        !.timers = w.timers,
                        !.calls = @ + 1,
                        !.call = [name |-> "local",
                                  emitted |-> emitted,
                                  error |-> ""]]
    /\ UNCHANGED <<otVars, docVars, sessVars, sysVars, jsonVars>>

\* A timer set by write runs flush on the editor's Session.
EditorFlush ==
    /\ editor.timers > 0
    /\ LET f == SessionFlush(editor.session)
       IN  editor' = [editor EXCEPT
                !.session = f.session,
                !.timers = @ - 1,
                !.conn = @ \o f.send]
    /\ UNCHANGED <<otVars, docVars, sessVars, sysVars, jsonVars>>

EditorNext == EditorApplyEvent \/ EditorLocalEdit \/ EditorFlush

\* A ContentElement between the server's events and the user's edits.
SpecEditor ==
    /\ EditorInit
    /\ [][EditorNext]_vars

\* The operations of a list of notifications, in order.
RECURSIVE Flatten(_)
Flatten(notifications) ==
    IF notifications = <<>>
    THEN <<>>
    ELSE Head(notifications) \o Flatten(Tail(notifications))

\* C33: applying a received event, whether applyEvent returns or rejects
\* it, emits no change notification, writes nothing to the Session, sets
\* no timer and sends no ClientEdit; a local edit after it emits its
\* change notifications and they are written to the Session.
NoChangeWhileApplyingEvent ==
    [][editor'.calls > editor.calls =>
        LET call == editor'.call
        IN  /\ call.name = "applyEvent" =>
                /\ call.emitted = <<>>
                /\ editor'.session = editor.session
                /\ editor'.timers = editor.timers
                /\ editor'.conn = editor.conn
                /\ ~editor'.applyingEvent
            /\ call.name = "local" =>
                /\ call.emitted # <<>>
                /\ editor'.session.outbox =
                        editor.session.outbox \o Flatten(call.emitted)]_vars

\* An Edit applied, an Edit rejected, then a typed character: the first
\* two left nothing to send, the third is in the outbox.
NoChangeWhileApplyingEventWitness ==
    /\ editor # <<>>
    /\ editor.calls = 3
    /\ editor.applied = 1
    /\ editor.rejected = 1
    /\ editor.call.name = "local"
    /\ editor.call.emitted = << <<MoveCursor(1)>>, <<Insert(0, <<"z">>)>> >>
    /\ editor.session.outbox = <<MoveCursor(1), Insert(0, <<"z">>)>>
    /\ editor.doc.content = <<"z", "x">>
    /\ editor.conn = <<>>

====
